---------------------------- MODULE Spec2Model ----------------------------
(***************************************************************************)
(* Model of the Blender <-> H2A forge bridge (src/memory.py, with the UI   *)
(* property groups of src/panels.py; src/forge.py is the older one-file    *)
(* revision of the same code).                                             *)
(*                                                                         *)
(* An entry is a function 0..ENTRY_STRIDE-1 -> 0..255, so that offsets are *)
(* the offsets of the source.  A label name is a sequence of character     *)
(* codes, so that strip() and lower() are computed and not assumed.        *)
(* Floats are restricted to the small integers whose IEEE-754 single       *)
(* images are listed in F32Table, and vectors to axis-aligned ones, where  *)
(* length, normalisation and cross product are exact.                      *)
(***************************************************************************)
EXTENDS Integers, Sequences, FiniteSets, TLC

(***************************************************************************)
(* Bounds of the model.                                                    *)
(***************************************************************************)
\* Capacity of the slot array; the program's value is 650 (memory.py:80).
maxObjectCount == 3
\* The scene holds at most maxObjectCount + SceneSlack forge objects.
SceneSlack == 1

(***************************************************************************)
(* Layout constants (memory.py:84-118).                                    *)
(***************************************************************************)
ENTRY_STRIDE == 76
OFF_POS == 6
OFF_FWD == 18
OFF_UP == 30
OFF_F32_A == 42
OFF_U16_FFFF == 46
OFF_U16_TYPECONST == 48
OFF_PRE_FLAGS_BYTE == 59
OFF_OBJECT_FLAGS == 60
OFF_CAN_DESPAWN == 61
OFF_TEAM_INDEX == 62
OFF_SPAWN_TIME == 63
OFF_OBJECT_COLOR == 64
OFF_SPAWN_SEQ == 65
OFF_TIMER_USER == 66
OFF_SPAWN_CHAN == 67
OFF_LABEL_1 == 68
OFF_LABEL_2 == 69
OFF_LABEL_3 == 70
OFF_LABEL_4 == 71
OFF_TELE_CHAN == 72
OFF_PASS_FLAGS == 73
OFF_TAIL_FLAG == ENTRY_STRIDE - 2
LABEL_BLOB_SIZE == 4618
LABEL_BLOB_BACK == 4618
\* The "no label" byte, written 0xFF in the source.
NO_LABEL == 255
\* LABEL_NONE_ID = "__NONE__" as character codes.
LABEL_NONE_ID == <<95, 95, 78, 79, 78, 69, 95, 95>>
COSMIC_DEFENDERS_TEAM_VALUE == 0
COSMIC_RED_COLOR_VALUE == 1
COSMIC_FORCE_DEFENDERS_TEAM == TRUE

Byte == 0..255
Offsets == 0..(ENTRY_STRIDE - 1)

(***************************************************************************)
(* Integer helpers.                                                        *)
(***************************************************************************)
Min(a, b) == IF a < b THEN a ELSE b
Max(a, b) == IF a > b THEN a ELSE b

\* v & 0xFF for any integer v (Python's & on a negative int is two's complement).
And255(v) == v % 256

_clamp_u8(v) == IF v < 0 THEN 0 ELSE IF v > 255 THEN 255 ELSE v

_to_u8_twos_complement(v) == And255(v)

_s8_to_u8(v) == And255(v)

\* A clamp to the whole signed-byte range, -128 included.
_clamp_s8_whole_range(v) == IF v < -128 THEN -128 ELSE IF v > 127 THEN 127 ELSE v

_clamp_s8_timer(v) == IF v < -127 THEN -127 ELSE IF v > 127 THEN 127 ELSE v

\* struct.pack("<H", v & 0xFFFF) as <<low, high>>.
_pack_u16(v) == <<(v % 65536) % 256, (v % 65536) \div 256>>

\* Bit b (0 = LSB) of byte v.
Bit(v, b) == (v \div (2 ^ b)) % 2

(***************************************************************************)
(* IEEE-754 single images of the floats of the model.                      *)
(***************************************************************************)
F32Table ==
    [v \in -2..2 |->
        CASE v = 0  -> <<0, 0, 0, 0>>
          [] v = 1  -> <<0, 0, 128, 63>>
          [] v = -1 -> <<0, 0, 128, 191>>
          [] v = 2  -> <<0, 0, 0, 64>>
          [] v = -2 -> <<0, 0, 0, 192>>]

_pack_f32(v) == F32Table[v]

\* struct.unpack_from("<f", ...) on the images of the model; any other image
\* is outside the modelled floats and no state of the model holds one.
_f32_from(q) ==
    IF \E v \in DOMAIN F32Table : F32Table[v] = q
    THEN CHOOSE v \in DOMAIN F32Table : F32Table[v] = q
    ELSE 0


(***************************************************************************)
(* State.                                                                  *)
(***************************************************************************)
VARIABLES
    registry,        \* OBJECT_TYPE_INFO in insertion order: <<[name, top, sub, pre3b]>>
    caps,            \* MemBridge._has_set_total / _has_finalize / _has_post_export
    hproc,           \* MemBridge.hproc: TRUE while a process handle is held
    mem,             \* the slot array of the target process: slot -> entry
    scene,           \* context.scene.objects that are forge objects, in order
    forge_labels,    \* sp.forge_labels: <<[name, index]>>
    blob_size,       \* sp.imported_label_blob_size
    palette,         \* the type names whose palette collection exists and holds an object
    last             \* what the last operator did: provider calls, reports, result

vars == <<registry, caps, hproc, mem, scene, forge_labels, blob_size, palette, last>>

\* The value standing for Python's None.
None == "None"

(***************************************************************************)
(* Strings as sequences of character codes.                                *)
(***************************************************************************)
\* str.isspace() on ASCII: \t \n \v \f \r, FS GS RS US, space.
IsSpace(c) == c \in (9..13) \cup (28..31) \cup {32}

\* ch in string.printable and ch not in "\r\t" (memory.py:580).
IsPrintableNoCrTab(c) == c \in (32..126) \cup {10, 11, 12}

\* str.lower() on ASCII.
LowerChar(c) == IF c \in 65..90 THEN c + 32 ELSE c
Lower(s) == [i \in 1..Len(s) |-> LowerChar(s[i])]

\* str.strip().
Strip(s) ==
    LET keep == {i \in 1..Len(s) : ~IsSpace(s[i])} IN
    IF keep = {} THEN <<>>
    ELSE LET a == CHOOSE i \in keep : \A j \in keep : i <= j
             b == CHOOSE i \in keep : \A j \in keep : i >= j
         IN SubSeq(s, a, b)

\* bytes.decode("ascii", errors="ignore"): bytes >= 128 are dropped.
DecodeAsciiIgnore(p) == SelectSeq(p, LAMBDA c : c < 128)

Dist(a, b) == IF a < b THEN b - a ELSE a - b

\* bytes.split(b"\x00").  Splitting at any NUL and splitting both halves gives
\* the same parts as splitting left to right; the NUL nearest the middle is
\* taken so that the recursion depth stays logarithmic.
RECURSIVE SplitNul(_)
SplitNul(b) ==
    LET nul == {i \in 1..Len(b) : b[i] = 0} IN
    IF nul = {} THEN <<b>>
    ELSE LET mid == (Len(b) + 1) \div 2
             p == CHOOSE i \in nul : \A j \in nul :
                      \/ Dist(i, mid) < Dist(j, mid)
                      \/ (Dist(i, mid) = Dist(j, mid) /\ i <= j)
         IN SplitNul(SubSeq(b, 1, p - 1)) \o SplitNul(SubSeq(b, p + 1, Len(b)))

\* A variant of the seen/uniq loop that keeps every occurrence.
KeepEveryOccurrence(s) == s

\* The seen/uniq loop of memory.py:599-605: first occurrences, in order.
RECURSIVE KeepFirstOccurrences(_)
KeepFirstOccurrences(s) ==
    IF Len(s) <= 1 THEN s
    ELSE LET h == Len(s) \div 2
             L == KeepFirstOccurrences(SubSeq(s, 1, h))
             R == KeepFirstOccurrences(SubSeq(s, h + 1, Len(s)))
         IN L \o SelectSeq(R, LAMBDA e : \A j \in 1..Len(L) : L[j] # e)

_is_mostly_printable(s) ==
    /\ s # <<>>
    /\ Cardinality({i \in 1..Len(s) : IsPrintableNoCrTab(s[i])})
          >= Max(3, (Len(s) * 85) \div 100)

\* One part of the blob to the string the parser keeps for it.
PartText(p) == Strip(DecodeAsciiIgnore(p))

parse_forge_labels_from_blob(blob) ==
    LET parts == SplitNul(blob)
        texts == [i \in 1..Len(parts) |-> PartText(parts[i])]
        out   == SelectSeq(texts, LAMBDA s : Len(s) >= 2 /\ _is_mostly_printable(s))
    IN KeepFirstOccurrences(out)

(***************************************************************************)
(* Label table lookups.                                                    *)
(***************************************************************************)
\* Positions of the table whose item matches the name, ignoring case.
MatchingItems(labels, nm) ==
    {i \in 1..Len(labels) :
        /\ Strip(labels[i].name) # <<>>
        /\ Lower(Strip(labels[i].name)) = Lower(nm)}

_find_label_index_by_name(labels, label_name) ==
    LET nm == Strip(label_name) IN
    IF nm = <<>> \/ nm = LABEL_NONE_ID THEN NO_LABEL
    ELSE IF MatchingItems(labels, nm) = {} THEN NO_LABEL
    ELSE LET i == CHOOSE k \in MatchingItems(labels, nm) :
                      \A j \in MatchingItems(labels, nm) : k <= j
         IN And255(labels[i].index)

_find_label_name_by_index(labels, idx_u8) ==
    IF And255(idx_u8) = NO_LABEL THEN <<>>
    ELSE LET hit == {i \in 1..Len(labels) : And255(labels[i].index) = And255(idx_u8)} IN
         IF hit = {} THEN <<>>
         ELSE Strip(labels[CHOOSE k \in hit : \A j \in hit : k <= j].name)

_label_enum_to_name(enum_str) ==
    LET s == Strip(enum_str) IN
    IF s = <<>> \/ s = LABEL_NONE_ID THEN <<>> ELSE s

_label_name_to_enum(label_name) ==
    LET nm == Strip(label_name) IN
    IF nm = <<>> THEN LABEL_NONE_ID ELSE nm

\* The identifiers of the label dropdown (memory.py:713-737): "__NONE__" and
\* every table name whose index byte is not 0xFF.
LabelEnumIdentifiers(labels) ==
    {LABEL_NONE_ID} \cup
    {Strip(labels[i].name) : i \in {k \in 1..Len(labels) :
        And255(labels[k].index) # NO_LABEL /\ Strip(labels[k].name) # <<>>}}

(***************************************************************************)
(* Type registry (memory.py:124-504, 1315-1351).                           *)
(***************************************************************************)
RegistryNames == {registry[i].name : i \in 1..Len(registry)}

\* DEFAULT_OBJECT_TYPE (memory.py:484-486): the first key when the literal is
\* no key of the registry.
DEFAULT_OBJECT_TYPE ==
    IF "Block, 5x5, Flat" \in RegistryNames THEN "Block, 5x5, Flat"
    ELSE IF Len(registry) > 0 THEN registry[1].name ELSE ""

\* A triple, or <<>> for None.
_get_type_info(name) ==
    IF name \notin RegistryNames THEN <<>>
    ELSE LET e == registry[CHOOSE i \in 1..Len(registry) : registry[i].name = name]
         IN <<e.top, e.sub, And255(e.pre3b)>>

\* The last registry position in S (a dict assignment in a loop: last wins).
LastOf(S) == CHOOSE i \in S : \A j \in S : i >= j

ExactPositions(top_id, sub_id, pre3b) ==
    {i \in 1..Len(registry) :
        /\ And255(registry[i].top) = top_id
        /\ And255(registry[i].sub) = sub_id
        /\ And255(registry[i].pre3b) = pre3b}

PairPositions(top_id, sub_id) ==
    {i \in 1..Len(registry) :
        And255(registry[i].top) = top_id /\ And255(registry[i].sub) = sub_id}

\* TYPEKEY_TO_NAME.get(key) (memory.py:471-480); "" for None.
TYPEKEY_TO_NAME(top_id, sub_id, pre3b) ==
    IF ExactPositions(top_id, sub_id, pre3b) = {} THEN ""
    ELSE registry[LastOf(ExactPositions(top_id, sub_id, pre3b))].name

\* TYPEKEY_TO_NAME_LOOSE.get(pair): each name overwrites the pair's entry.
TYPEKEY_TO_NAME_LOOSE(top_id, sub_id) ==
    IF PairPositions(top_id, sub_id) = {} THEN ""
    ELSE registry[LastOf(PairPositions(top_id, sub_id))].name

\* sorted(cands, key=pre3b)[0]: the lowest pre3b, the earliest one on a tie.
LowestPre3b(S) ==
    CHOOSE i \in S : \A j \in S :
        \/ And255(registry[i].pre3b) < And255(registry[j].pre3b)
        \/ (And255(registry[i].pre3b) = And255(registry[j].pre3b) /\ i <= j)

_resolve_template_name_from_ids(top_id, sub_id, pre3b) ==
    LET t == And255(top_id)
        u == And255(sub_id)
        q == And255(pre3b)
    IN IF ExactPositions(t, u, q) # {}
       THEN registry[LastOf(ExactPositions(t, u, q))].name
       ELSE IF PairPositions(t, u) # {}
       THEN registry[LowestPre3b(PairPositions(t, u))].name
       ELSE ""

(***************************************************************************)
(* Vectors with integer components; only axis-aligned ones and the zero    *)
(* vector are normalised, so mathutils' results are exact.                 *)
(***************************************************************************)
Sign(a) == IF a > 0 THEN 1 ELSE IF a < 0 THEN -1 ELSE 0
Abs(a) == IF a < 0 THEN -a ELSE a
IsZeroVec(v) == v[1] = 0 /\ v[2] = 0 /\ v[3] = 0
\* Vector.normalized(): the zero vector stays the zero vector.
Normalized(v) == <<Sign(v[1]), Sign(v[2]), Sign(v[3])>>
Cross(a, b) ==
    <<a[2] * b[3] - a[3] * b[2], a[3] * b[1] - a[1] * b[3], a[1] * b[2] - a[2] * b[1]>>
Dot(a, b) == a[1] * b[1] + a[2] * b[2] + a[3] * b[3]

(***************************************************************************)
(* Object properties (panels.py:57-158) and the custom properties the      *)
(* code keeps on an object.                                                *)
(***************************************************************************)
NoUnmapped == [set |-> FALSE, top |-> 0, sub |-> 0, pre3b |-> 0]
NoLabels == <<<<>>, <<>>, <<>>, <<>>>>
NoEnums == <<LABEL_NONE_ID, LABEL_NONE_ID, LABEL_NONE_ID, LABEL_NONE_ID>>

\* A forge object whose properties have the defaults of H2AForgeObjectProps.
DefaultObject ==
    [ template_name |-> DEFAULT_OBJECT_TYPE,
      pre_flags_byte |-> 0,
      physics_mode_enum |-> "PHASED",
      game_specific_enum |-> "1",
      symmetry_enum |-> "BOTH",
      place_at_start_enum |-> "1",
      can_despawn |-> 0,
      team_enum |-> "8",
      spawn_time |-> 0,
      object_color_enum |-> "FF",
      spawn_sequence |-> 0,
      timer_user_data |-> 0,
      spawn_channel |-> 255,
      label_name |-> NoLabels,
      label_enum |-> NoEnums,
      teleporter_channel_enum |-> 255,
      pass_players_enum |-> "ALLOW",
      pass_land_enum |-> "BLOCK",
      pass_heavy_enum |-> "BLOCK",
      pass_flying_enum |-> "BLOCK",
      pass_projectiles_enum |-> "BLOCK",
      unmapped |-> NoUnmapped,
      h2a_import_unknown |-> FALSE,
      h2a_forge_slot |-> -1,
      h2a_import_slot |-> -1,
      mw_x |-> <<1, 0, 0>>,
      mw_y |-> <<0, 1, 0>>,
      mw_z |-> <<0, 0, 1>>,
      mw_pos |-> <<0, 0, 0>> ]

\* int() of the identifiers of BOOL_ITEMS and TEAM_ITEMS.
IntOfEnum ==
    [s \in {"0", "1", "2", "3", "4", "5", "6", "7", "8"} |->
        CASE s = "0" -> 0 [] s = "1" -> 1 [] s = "2" -> 2 [] s = "3" -> 3
          [] s = "4" -> 4 [] s = "5" -> 5 [] s = "6" -> 6 [] s = "7" -> 7
          [] s = "8" -> 8]

\* str(int(u)) for u in 0..8.
StrOfInt ==
    [u \in 0..8 |->
        CASE u = 0 -> "0" [] u = 1 -> "1" [] u = 2 -> "2" [] u = 3 -> "3"
          [] u = 4 -> "4" [] u = 5 -> "5" [] u = 6 -> "6" [] u = 7 -> "7"
          [] u = 8 -> "8"]

\* _parse_u8_auto on the identifiers of OBJECT_COLOR_ITEMS: "FF" holds a hex
\* letter and is read base 16, a digit string is read base 10.
_parse_u8_auto(s) == IF s = "FF" THEN 255 ELSE And255(IntOfEnum[s])

(***************************************************************************)
(* Unmapped type tracking (memory.py:632-671).                             *)
(***************************************************************************)
mark_unmapped(obj, top_id, sub_id, pre3b) ==
    [obj EXCEPT !.unmapped = [set |-> TRUE, top |-> And255(top_id),
                              sub |-> And255(sub_id), pre3b |-> And255(pre3b)]]

clear_unmapped(obj) == [obj EXCEPT !.unmapped = NoUnmapped]

is_unmapped(obj) == obj.unmapped.set

\* A variant of get_export_type_triple that takes the triple of the type name
\* whether or not the object is marked unmapped.
get_export_type_triple_of_name(obj) ==
    IF _get_type_info(obj.template_name) = <<>> THEN <<>>
    ELSE <<And255(_get_type_info(obj.template_name)[1]),
           And255(_get_type_info(obj.template_name)[2]),
           And255(obj.pre_flags_byte)>>

\* A triple, or <<>> for None.
get_export_type_triple(obj) ==
    IF is_unmapped(obj)
    THEN <<And255(obj.unmapped.top), And255(obj.unmapped.sub), And255(obj.unmapped.pre3b)>>
    ELSE IF _get_type_info(obj.template_name) = <<>> THEN <<>>
    ELSE <<And255(_get_type_info(obj.template_name)[1]),
           And255(_get_type_info(obj.template_name)[2]),
           And255(obj.pre_flags_byte)>>

(***************************************************************************)
(* Packed flag builders (memory.py:923-992).                               *)
(***************************************************************************)
is_red_team_cosmic(p) == _parse_u8_auto(p.object_color_enum) = COSMIC_RED_COLOR_VALUE

resolve_team_byte(p) ==
    IF COSMIC_FORCE_DEFENDERS_TEAM /\ is_red_team_cosmic(p)
    THEN COSMIC_DEFENDERS_TEAM_VALUE
    ELSE IntOfEnum[p.team_enum]

\* A variant of pack_object_flags that gives PHASED the physics bits 10.
pack_object_flags_phased_as_10(p) ==
    LET phys_bits == IF p.physics_mode_enum = "NORMAL" THEN 0
                     ELSE IF p.physics_mode_enum = "FIXED" THEN 1 ELSE 2
        sym_bits  == IF p.symmetry_enum = "NONE" THEN 0
                     ELSE IF p.symmetry_enum = "SYMMETRIC" THEN 1
                     ELSE IF p.symmetry_enum = "ASYMMETRIC" THEN 2 ELSE 3
        gs        == IF IntOfEnum[p.game_specific_enum] # 0 THEN 1 ELSE 0
        pas       == IF IntOfEnum[p.place_at_start_enum] # 0 THEN 1 ELSE 0
        not_pas   == IF pas = 1 THEN 0 ELSE 1
    IN And255(phys_bits * 64 + gs * 32 + sym_bits * 4 + not_pas * 2)

pack_object_flags(p) ==
    LET phys_bits == IF p.physics_mode_enum = "NORMAL" THEN 0
                     ELSE IF p.physics_mode_enum = "FIXED" THEN 1 ELSE 3
        sym_bits  == IF p.symmetry_enum = "NONE" THEN 0
                     ELSE IF p.symmetry_enum = "SYMMETRIC" THEN 1
                     ELSE IF p.symmetry_enum = "ASYMMETRIC" THEN 2 ELSE 3
        gs        == IF IntOfEnum[p.game_specific_enum] # 0 THEN 1 ELSE 0
        pas       == IF IntOfEnum[p.place_at_start_enum] # 0 THEN 1 ELSE 0
        not_pas   == IF pas = 1 THEN 0 ELSE 1
    IN And255(phys_bits * 64 + gs * 32 + sym_bits * 4 + not_pas * 2)

pack_passability_flags(p) ==
    And255((IF p.pass_players_enum = "BLOCK" THEN 1 ELSE 0)
         + (IF p.pass_land_enum = "ALLOW" THEN 2 ELSE 0)
         + (IF p.pass_heavy_enum = "ALLOW" THEN 4 ELSE 0)
         + (IF p.pass_flying_enum = "ALLOW" THEN 8 ELSE 0)
         + (IF p.pass_projectiles_enum = "ALLOW" THEN 16 ELSE 0))

(***************************************************************************)
(* Entries (memory.py:516-544, 1620-1645).                                 *)
(***************************************************************************)
\* buf[off:off+len(data)] = data
RECURSIVE WriteFrom(_, _, _, _)
WriteFrom(buf, off, data, n) ==
    IF n > Len(data) THEN buf
    ELSE WriteFrom([buf EXCEPT ![off + n - 1] = data[n]], off, data, n + 1)

WriteAt(buf, off, data) == WriteFrom(buf, off, data, 1)

_write_u8(buf, off, v) == [buf EXCEPT ![off] = _clamp_u8(v)]

_write_s8(buf, off, v) == [buf EXCEPT ![off] = _to_u8_twos_complement(v)]

_write_float3_unaligned(buf, off, v) ==
    WriteAt(buf, off, _pack_f32(v[1]) \o _pack_f32(v[2]) \o _pack_f32(v[3]))

_set_tail_flag(buf, is_more_after) ==
    WriteAt(buf, OFF_TAIL_FLAG, IF is_more_after THEN <<1, 0>> ELSE <<0, 0>>)

\* EMPTY_SLOT_HEX: 0xFF at 0..5, 0x2E, 0x2F, 0x40 and 0x44..0x47; 0x08 at 0x3E.
EMPTY_SLOT_BYTES ==
    [o \in Offsets |->
        IF o \in (0..5) \cup {46, 47, 64} \cup (68..71) THEN 255
        ELSE IF o = 62 THEN 8
        ELSE 0]

\* A variant of _init_entry_for_type that leaves bytes 1..5 as the template
\* has them.
_init_entry_keeping_header(top_id, sub_id, pre3b) ==
    LET b0 == [EMPTY_SLOT_BYTES EXCEPT ![0] = And255(top_id)]
        b2 == WriteAt(b0, OFF_F32_A, _pack_f32(1))
        b3 == WriteAt(b2, OFF_U16_FFFF, _pack_u16(65535))
        b4 == WriteAt(b3, OFF_U16_TYPECONST, _pack_u16(And255(sub_id)))
        b5 == [b4 EXCEPT ![OFF_PRE_FLAGS_BYTE] = And255(pre3b)]
    IN _set_tail_flag(b5, FALSE)

_init_entry_for_type(top_id, sub_id, pre3b) ==
    LET b0 == [EMPTY_SLOT_BYTES EXCEPT ![0] = And255(top_id), ![1] = 0]
        b1 == WriteAt(b0, 2, <<255, 255, 255, 255>>)
        b2 == WriteAt(b1, OFF_F32_A, _pack_f32(1))
        b3 == WriteAt(b2, OFF_U16_FFFF, _pack_u16(65535))
        b4 == WriteAt(b3, OFF_U16_TYPECONST, _pack_u16(And255(sub_id)))
        b5 == [b4 EXCEPT ![OFF_PRE_FLAGS_BYTE] = And255(pre3b)]
    IN _set_tail_flag(b5, FALSE)

_entry_is_empty(b) == \A o \in 0..5 : b[o] = 255

_entry_has_more_after(b) == b[OFF_TAIL_FLAG] = 1

(***************************************************************************)
(* Export core (memory.py:1651-1707).                                      *)
(***************************************************************************)
\* The name export resolves for label k: the stored name, or else the
\* dropdown's selection.
ExportLabelName(p, k) ==
    Strip(IF p.label_name[k] # <<>> THEN p.label_name[k]
          ELSE _label_enum_to_name(p.label_enum[k]))

\* The entry of a forge object, or <<>> for None.
build_entry_bytes(labels, obj) ==
    LET triple == get_export_type_triple(obj) IN
    IF triple = <<>> THEN <<>>
    ELSE
    LET b0  == _init_entry_for_type(triple[1], triple[2], And255(triple[3]))
        b1  == _write_float3_unaligned(b0, OFF_POS, obj.mw_pos)
        b2  == _write_float3_unaligned(b1, OFF_FWD, Normalized(obj.mw_x))
        b3  == _write_float3_unaligned(b2, OFF_UP, Normalized(obj.mw_z))
        b4  == _write_u8(b3, OFF_PRE_FLAGS_BYTE, And255(obj.pre_flags_byte))
        b5  == _write_u8(b4, OFF_OBJECT_FLAGS, pack_object_flags(obj))
        b6  == _write_u8(b5, OFF_CAN_DESPAWN, obj.can_despawn)
        b7  == _write_u8(b6, OFF_TEAM_INDEX, resolve_team_byte(obj))
        b8  == _write_u8(b7, OFF_SPAWN_TIME, obj.spawn_time)
        b9  == _write_u8(b8, OFF_OBJECT_COLOR, _parse_u8_auto(obj.object_color_enum))
        b10 == _write_s8(b9, OFF_SPAWN_SEQ, obj.spawn_sequence)
        b11 == _write_u8(b10, OFF_TIMER_USER, _s8_to_u8(_clamp_s8_timer(obj.timer_user_data)))
        b12 == _write_u8(b11, OFF_SPAWN_CHAN, obj.spawn_channel)
        b13 == _write_u8(b12, OFF_LABEL_1, _find_label_index_by_name(labels, ExportLabelName(obj, 1)))
        b14 == _write_u8(b13, OFF_LABEL_2, _find_label_index_by_name(labels, ExportLabelName(obj, 2)))
        b15 == _write_u8(b14, OFF_LABEL_3, _find_label_index_by_name(labels, ExportLabelName(obj, 3)))
        b16 == _write_u8(b15, OFF_LABEL_4, _find_label_index_by_name(labels, ExportLabelName(obj, 4)))
        b17 == _write_u8(b16, OFF_TELE_CHAN, _clamp_u8(obj.teleporter_channel_enum))
    IN _write_u8(b17, OFF_PASS_FLAGS, pack_passability_flags(obj))

(***************************************************************************)
(* Property update callbacks (panels.py:58-64, 138-141; memory.py:890-921).*)
(* Blender runs a property's update callback on every assignment to it.    *)
(* The scale preview the callbacks end with changes obj.scale only, which  *)
(* no operator reads (export normalises the matrix columns).               *)
(***************************************************************************)
_on_label_enum_update(p) ==
    [p EXCEPT !.label_name = [k \in 1..4 |-> _label_enum_to_name(p.label_enum[k])]]

_on_template_name_update(p) ==
    IF _get_type_info(p.template_name) = <<>> THEN p
    ELSE [p EXCEPT !.pre_flags_byte = And255(_get_type_info(p.template_name)[3])]

\* p.template_name = name
SetTemplateName(p, name) == _on_template_name_update([p EXCEPT !.template_name = name])

\* try: p.label_enum_k = target / except: p.label_enum_k = LABEL_NONE_ID.
\* An identifier that is no item of the dropdown raises.
SetLabelEnumOrNone(labels, p, k, target) ==
    IF target \in LabelEnumIdentifiers(labels)
    THEN _on_label_enum_update([p EXCEPT !.label_enum[k] = target])
    ELSE _on_label_enum_update([p EXCEPT !.label_enum[k] = LABEL_NONE_ID])

_rebind_object_label_enums_from_names(labels, obj) ==
    LET p1 == SetLabelEnumOrNone(labels, obj, 1, _label_name_to_enum(Strip(obj.label_name[1])))
        p2 == SetLabelEnumOrNone(labels, p1, 2, _label_name_to_enum(Strip(p1.label_name[2])))
        p3 == SetLabelEnumOrNone(labels, p2, 3, _label_name_to_enum(Strip(p2.label_name[3])))
    IN SetLabelEnumOrNone(labels, p3, 4, _label_name_to_enum(Strip(p3.label_name[4])))

_rebind_all_objects_after_label_refresh(labels, objs) ==
    [i \in 1..Len(objs) |-> _rebind_object_label_enums_from_names(labels, objs[i])]

(***************************************************************************)
(* Object creation (memory.py:1229-1288, 1378-1399).                       *)
(***************************************************************************)
\* createForgeObject for a palette collection that exists: a new object at
\* the cursor (the origin), unrotated.
createForgeObject(leafCollectionName) ==
    LET p0 == SetTemplateName(DefaultObject,
                  IF leafCollectionName \in RegistryNames THEN leafCollectionName
                  ELSE DEFAULT_OBJECT_TYPE)
        info == _get_type_info(p0.template_name)
        p1 == [p0 EXCEPT !.pre_flags_byte = IF info = <<>> THEN 0 ELSE And255(info[3])]
    IN [clear_unmapped(p1) EXCEPT !.label_name = NoLabels, !.label_enum = NoEnums]

\* pal: the type names whose palette collection exists and is not empty.
_create_object_from_template_or_placeholder(pal, template_name, top_id, sub_id, pre3b) ==
    IF template_name # "" /\ template_name \in RegistryNames /\ template_name \in pal
    THEN createForgeObject(template_name)
    ELSE [SetTemplateName(DefaultObject, DEFAULT_OBJECT_TYPE) EXCEPT
             !.pre_flags_byte = And255(pre3b),
             !.h2a_import_unknown = TRUE]

(***************************************************************************)
(* Decode (memory.py:1405-1584).                                           *)
(***************************************************************************)
_u8_from(b, off) == And255(b[off])

_s8_from(b, off) == IF And255(b[off]) >= 128 THEN And255(b[off]) - 256 ELSE And255(b[off])

_u16_from(b, off) == (b[off] + 256 * b[off + 1]) % 65536

F32At(b, off) == _f32_from(<<b[off], b[off + 1], b[off + 2], b[off + 3]>>)

V3At(b, off) == <<F32At(b, off), F32At(b, off + 4), F32At(b, off + 8)>>

\* The basis <<x, y, z>> rebuilt from the stored forward and up vectors.
DecodeBasis(fwd, up) ==
    LET x  == IF IsZeroVec(fwd) THEN <<1, 0, 0>> ELSE Normalized(fwd)
        z0 == IF IsZeroVec(up) THEN <<0, 0, 1>> ELSE Normalized(up)
        y0 == Cross(z0, x)
        alt == IF Abs(Dot(x, <<0, 1, 0>>)) = 0 THEN <<0, 1, 0>> ELSE <<0, 0, 1>>
        y1 == IF IsZeroVec(y0) THEN Cross(alt, x) ELSE y0
        y  == IF IsZeroVec(y1) THEN <<0, 1, 0>> ELSE Normalized(y1)
        z1 == Cross(x, y)
        z  == IF IsZeroVec(z1) THEN <<0, 0, 1>> ELSE Normalized(z1)
    IN <<x, y, z>>

\* An assignment to an IntProperty keeps the value within the property's
\* hard limits.
ClampProp(v, lo, hi) == IF v < lo THEN lo ELSE IF v > hi THEN hi ELSE v

_apply_entry_to_object(labels, obj, entry, slot_index) ==
    LET top_id == entry[0]
        sub_id == entry[OFF_U16_TYPECONST]
        pre3b  == entry[OFF_PRE_FLAGS_BYTE]
        basis  == DecodeBasis(V3At(entry, OFF_FWD), V3At(entry, OFF_UP))
        exact  == TYPEKEY_TO_NAME(And255(top_id), And255(sub_id), And255(pre3b))
        name   == IF exact # "" THEN exact
                  ELSE TYPEKEY_TO_NAME_LOOSE(And255(top_id), And255(sub_id))
        typed  == IF name # ""
                  THEN clear_unmapped(
                          [SetTemplateName(obj, name) EXCEPT !.pre_flags_byte = And255(pre3b)])
                  ELSE mark_unmapped(
                          [SetTemplateName(obj, DEFAULT_OBJECT_TYPE) EXCEPT
                              !.pre_flags_byte = And255(pre3b)],
                          top_id, sub_id, pre3b)
        flags     == entry[OFF_OBJECT_FLAGS]
        phys_bits == (flags \div 64) % 4
        gs_bit    == (flags \div 32) % 2
        sym_bits  == (flags \div 4) % 4
        not_pas   == (flags \div 2) % 2
        team_u    == IF entry[OFF_TEAM_INDEX] > 8 THEN 8 ELSE entry[OFF_TEAM_INDEX]
        col_u     == entry[OFF_OBJECT_COLOR]
        tele_u    == entry[OFF_TELE_CHAN]
        pass_b    == entry[OFF_PASS_FLAGS]
        scalars ==
            [typed EXCEPT
                !.mw_x = basis[1], !.mw_y = basis[2], !.mw_z = basis[3],
                !.mw_pos = V3At(entry, OFF_POS),
                !.pre_flags_byte = And255(pre3b),
                !.physics_mode_enum = IF phys_bits = 0 THEN "NORMAL"
                                      ELSE IF phys_bits = 1 THEN "FIXED" ELSE "PHASED",
                !.game_specific_enum = IF gs_bit # 0 THEN "1" ELSE "0",
                !.symmetry_enum = IF sym_bits = 0 THEN "NONE"
                                  ELSE IF sym_bits = 1 THEN "SYMMETRIC"
                                  ELSE IF sym_bits = 2 THEN "ASYMMETRIC" ELSE "BOTH",
                !.place_at_start_enum = IF not_pas = 0 THEN "1" ELSE "0",
                !.can_despawn = entry[OFF_CAN_DESPAWN],
                !.team_enum = StrOfInt[team_u],
                !.spawn_time = entry[OFF_SPAWN_TIME],
                !.object_color_enum = IF col_u = 255 THEN "FF"
                                      ELSE IF col_u <= 7 THEN StrOfInt[col_u] ELSE "FF",
                !.spawn_sequence = ClampProp(_s8_from(entry, OFF_SPAWN_SEQ), -128, 127),
                !.timer_user_data = ClampProp(_s8_from(entry, OFF_TIMER_USER), -127, 127),
                !.spawn_channel = entry[OFF_SPAWN_CHAN],
                !.label_name = [k \in 1..4 |->
                    _find_label_name_by_index(labels, entry[OFF_LABEL_1 + k - 1])],
                !.teleporter_channel_enum = IF tele_u = 255 THEN 255
                                            ELSE IF tele_u <= 25 THEN tele_u ELSE 255,
                !.pass_players_enum = IF Bit(pass_b, 0) = 1 THEN "BLOCK" ELSE "ALLOW",
                !.pass_land_enum = IF Bit(pass_b, 1) = 1 THEN "ALLOW" ELSE "BLOCK",
                !.pass_heavy_enum = IF Bit(pass_b, 2) = 1 THEN "ALLOW" ELSE "BLOCK",
                !.pass_flying_enum = IF Bit(pass_b, 3) = 1 THEN "ALLOW" ELSE "BLOCK",
                !.pass_projectiles_enum = IF Bit(pass_b, 4) = 1 THEN "ALLOW" ELSE "BLOCK"]
        e1 == SetLabelEnumOrNone(labels, scalars, 1, _label_name_to_enum(scalars.label_name[1]))
        e2 == SetLabelEnumOrNone(labels, e1, 2, _label_name_to_enum(scalars.label_name[2]))
        e3 == SetLabelEnumOrNone(labels, e2, 3, _label_name_to_enum(scalars.label_name[3]))
        e4 == SetLabelEnumOrNone(labels, e3, 4, _label_name_to_enum(scalars.label_name[4]))
    IN IF slot_index >= 0 THEN [e4 EXCEPT !.h2a_forge_slot = slot_index] ELSE e4

(***************************************************************************)
(* The memory provider and reports.                                        *)
(***************************************************************************)
\* Addresses mb_get_forge_object_array can resolve to; 0 is the failure.
ArrayBaseA == 100000
ArrayBaseB == 200000
Bases == {ArrayBaseA, ArrayBaseB}

Slots == 0..(maxObjectCount - 1)
MaxScene == maxObjectCount + SceneSlack

Call(fn, arg) == [fn |-> fn, arg |-> arg]

\* What an operator leaves behind: its provider calls in order, its reports
\* and its return value.
NoOp ==
    [ op |-> "none", result |-> "none", report |-> "none", base |-> 0,
      calls |-> <<>>, fail_slot |-> -1, fail_addr |-> -1,
      written |-> 0, skipped |-> 0, imported |-> 0, unknown |-> 0,
      warnings |-> {}, limit |-> 0, read_failed |-> FALSE, pairs |-> <<>>,
      args |-> <<>>, value |-> 0 ]

(***************************************************************************)
(* Scan (memory.py:1586-1601).  failAt is the first slot whose read the    *)
(* provider fails (maxObjectCount: none).                                  *)
(***************************************************************************)
\* A variant of the scan loop that treats an empty entry at slot 0 like one at
\* any other slot.
RECURSIVE ScanFrom_HeadLikeAnySlot(_, _, _, _, _)
ScanFrom_HeadLikeAnySlot(memory, i, limit, failAt, acc) ==
    IF i >= limit THEN acc
    ELSE IF i = failAt THEN [acc EXCEPT !.reads = @ + 1, !.failed = TRUE]
    ELSE LET raw  == memory[i]
             read == [acc EXCEPT !.reads = @ + 1]
         IN IF _entry_is_empty(raw)
            THEN IF ~_entry_has_more_after(raw) THEN read
                 ELSE ScanFrom_HeadLikeAnySlot(memory, i + 1, limit, failAt, read)
            ELSE LET got == [read EXCEPT !.entries = Append(@, <<i, raw>>)]
                 IN IF ~_entry_has_more_after(raw) THEN got
                    ELSE ScanFrom_HeadLikeAnySlot(memory, i + 1, limit, failAt, got)

RECURSIVE ScanFrom(_, _, _, _, _)
ScanFrom(memory, i, limit, failAt, acc) ==
    IF i >= limit THEN acc
    ELSE IF i = failAt THEN [acc EXCEPT !.reads = @ + 1, !.failed = TRUE]
    ELSE LET raw  == memory[i]
             read == [acc EXCEPT !.reads = @ + 1]
         IN IF _entry_is_empty(raw)
            THEN IF i = 0 THEN read
                 ELSE IF ~_entry_has_more_after(raw) THEN read
                 ELSE ScanFrom(memory, i + 1, limit, failAt, read)
            ELSE LET got == [read EXCEPT !.entries = Append(@, <<i, raw>>)]
                 IN IF ~_entry_has_more_after(raw) THEN got
                    ELSE ScanFrom(memory, i + 1, limit, failAt, got)

\* A variant of the scan that collects every non-empty entry below the limit,
\* whatever the chain flags are.
_read_all_entries_ignoring_flags(memory, limit, failAt) ==
    LET upto == IF failAt < limit THEN failAt ELSE limit
        live == SelectSeq([i \in 1..upto |-> i - 1], LAMBDA i : ~_entry_is_empty(memory[i]))
    IN [entries |-> [j \in 1..Len(live) |-> <<live[j], memory[live[j]]>>],
        reads |-> IF failAt < limit THEN failAt + 1 ELSE limit,
        failed |-> failAt < limit]

\* entries: the <<slot, entry>> pairs returned; reads: how many slots were read.
_read_all_entries_from_memory(memory, limit, failAt) ==
    ScanFrom(memory, 0, limit, failAt, [entries |-> <<>>, reads |-> 0, failed |-> FALSE])

(***************************************************************************)
(* Export (memory.py:1770-1846).                                           *)
(***************************************************************************)
\* The entries export builds, in scene order, stopping at maxObjectCount.
RECURSIVE GatherEntries(_, _, _, _)
GatherEntries(labels, objs, i, acc) ==
    IF i > Len(objs) \/ Len(acc.entries) >= maxObjectCount THEN acc
    ELSE LET entry == build_entry_bytes(labels, objs[i]) IN
         IF DOMAIN entry = {}
         THEN GatherEntries(labels, objs, i + 1, [acc EXCEPT !.skipped = @ + 1])
         ELSE GatherEntries(labels, objs, i + 1, [acc EXCEPT !.entries = Append(@, entry)])

\* A variant of ExportSlotBytes that sets the chain flag of the last record too.
ExportSlotBytes_LastChained(entries, i) ==
    IF i < Len(entries)
    THEN _set_tail_flag(entries[i + 1], TRUE)
    ELSE _set_tail_flag(EMPTY_SLOT_BYTES, FALSE)

\* The bytes export writes to slot i.
ExportSlotBytes(entries, i) ==
    IF i < Len(entries)
    THEN _set_tail_flag(entries[i + 1], i < Len(entries) - 1)
    ELSE _set_tail_flag(EMPTY_SLOT_BYTES, FALSE)

SlotAddr(base, i) == base + i * ENTRY_STRIDE

\* The write calls of slots 0..n-1, the last one failing when lastOk is FALSE.
WriteCalls(base, n) == [i \in 1..n |-> Call("write", SlotAddr(base, i - 1))]

ExportNotConfirmed ==
    /\ last' = [NoOp EXCEPT !.op = "export", !.result = "CANCELLED", !.report = "ERROR confirm"]
    /\ UNCHANGED <<registry, caps, palette, hproc, mem, scene, forge_labels, blob_size>>

ExportOpenFails ==
    /\ ~hproc
    /\ last' = [NoOp EXCEPT !.op = "export", !.result = "CANCELLED", !.report = "ERROR open",
                            !.calls = <<Call("open_failed", 0)>>]
    /\ UNCHANGED <<registry, caps, palette, hproc, mem, scene, forge_labels, blob_size>>

\* A variant of ExportBaseZero that returns without closing the handle.
ExportBaseZero_KeepsHandle ==
    /\ last' = [NoOp EXCEPT !.op = "export", !.result = "CANCELLED", !.report = "ERROR base",
                            !.calls = <<Call("open", 0), Call("resolve", 0)>>]
    /\ hproc' = TRUE
    /\ UNCHANGED <<registry, caps, palette, mem, scene, forge_labels, blob_size>>

ExportBaseZero ==
    /\ last' = [NoOp EXCEPT !.op = "export", !.result = "CANCELLED", !.report = "ERROR base",
                            !.calls = <<Call("open", 0), Call("resolve", 0), Call("close", 0)>>]
    /\ hproc' = FALSE
    /\ UNCHANGED <<registry, caps, palette, mem, scene, forge_labels, blob_size>>

\* A variant of ExportWriteFails that goes on after the failed write: the
\* later slots are written and the total counter is set.
ExportWriteFails_GoesOn(failSlots) ==
    \E g \in {GatherEntries(forge_labels, scene, 1, [entries |-> <<>>, skipped |-> 0])} :
    \E base \in Bases, k \in failSlots \cap Slots :
        /\ mem' = [i \in Slots |-> IF i = k THEN mem[i] ELSE ExportSlotBytes(g.entries, i)]
        /\ last' = [NoOp EXCEPT
                      !.op = "export", !.result = "CANCELLED", !.report = "ERROR write",
                      !.base = base, !.fail_slot = k, !.fail_addr = SlotAddr(base, k),
                      !.written = Len(g.entries), !.skipped = g.skipped,
                      !.calls = <<Call("open", 0), Call("resolve", base)>>
                                \o WriteCalls(base, maxObjectCount)
                                \o <<Call("set_total", Len(g.entries)), Call("close", 0)>>]
        /\ hproc' = FALSE
        /\ UNCHANGED <<registry, caps, palette, scene, forge_labels, blob_size>>

\* The write of slot k, one of `failSlots`, fails; whether the provider changed
\* slot k is not known.
ExportWriteFails(failSlots) ==
    \E g \in {GatherEntries(forge_labels, scene, 1, [entries |-> <<>>, skipped |-> 0])} :
    \E base \in Bases, k \in failSlots \cap Slots, landed \in BOOLEAN :
        /\ mem' = [i \in Slots |->
                      IF i < k \/ (i = k /\ landed) THEN ExportSlotBytes(g.entries, i)
                      ELSE mem[i]]
        /\ last' = [NoOp EXCEPT
                      !.op = "export", !.result = "CANCELLED", !.report = "ERROR write",
                      !.base = base, !.fail_slot = k, !.fail_addr = SlotAddr(base, k),
                      !.written = Len(g.entries), !.skipped = g.skipped,
                      !.calls = <<Call("open", 0), Call("resolve", base)>>
                                \o WriteCalls(base, k + 1) \o <<Call("close", 0)>>]
        /\ hproc' = FALSE
        /\ UNCHANGED <<registry, caps, palette, scene, forge_labels, blob_size>>

\* A variant of OptionalCalls that makes the plain post-export poke whenever
\* it is bound, after the count-taking finalize too.
OptionalCalls_BothPokes(written) ==
    (IF caps.set_total THEN <<Call("set_total", written)>> ELSE <<>>)
    \o (IF caps.finalize THEN <<Call("finalize", written)>> ELSE <<>>)
    \o (IF caps.post_export THEN <<Call("post_export", 0)>> ELSE <<>>)

\* The calls after the slot writes: the total counter when the capability is
\* bound, then the count-taking finalize, or else the plain post-export poke.
OptionalCalls(written) ==
    (IF caps.set_total THEN <<Call("set_total", written)>> ELSE <<>>)
    \o (IF caps.finalize THEN <<Call("finalize", written)>>
        ELSE IF caps.post_export THEN <<Call("post_export", 0)>> ELSE <<>>)

ExportCompletes ==
    \E g \in {GatherEntries(forge_labels, scene, 1, [entries |-> <<>>, skipped |-> 0])} :
    \E base \in Bases, totalOk \in BOOLEAN, postOk \in BOOLEAN :
        LET post_ok == (caps.finalize \/ caps.post_export) /\ postOk
        IN
        /\ mem' = [i \in Slots |-> ExportSlotBytes(g.entries, i)]
        /\ last' = [NoOp EXCEPT
                      !.op = "export", !.result = "FINISHED", !.report = "INFO",
                      !.base = base,
                      !.written = Len(g.entries), !.skipped = g.skipped,
                      !.warnings = (IF caps.set_total /\ ~totalOk THEN {"total"} ELSE {})
                                   \cup (IF ~post_ok THEN {"post"} ELSE {}),
                      !.calls = <<Call("open", 0), Call("resolve", base)>>
                                \o WriteCalls(base, maxObjectCount)
                                \o OptionalCalls(Len(g.entries))
                                \o <<Call("close", 0)>>]
        /\ hproc' = FALSE
        /\ UNCHANGED <<registry, caps, palette, scene, forge_labels, blob_size>>

H2AForgeExportMemory(failSlots) ==
    \/ ExportNotConfirmed
    \/ ExportOpenFails
    \/ ExportBaseZero
    \/ ExportWriteFails(failSlots)
    \/ ExportCompletes

(***************************************************************************)
(* Import (memory.py:1854-1911).                                           *)
(***************************************************************************)
\* The record import makes of one scanned <<slot, entry>> pair.
ImportOne(labels, pr) ==
    LET entry == pr[2]
        top_id == _u8_from(entry, 0)
        sub_id == And255(_u16_from(entry, OFF_U16_TYPECONST))
        pre3b  == _u8_from(entry, OFF_PRE_FLAGS_BYTE)
        template_name == _resolve_template_name_from_ids(top_id, sub_id, pre3b)
        obj == _create_object_from_template_or_placeholder(palette, template_name,
                                                           top_id, sub_id, pre3b)
    IN [_apply_entry_to_object(labels, obj, entry, pr[1]) EXCEPT !.h2a_import_slot = pr[1]]

\* A variant of CountsUnknown that counts no pair.
CountsUnknown_Never(pr) == FALSE

\* unknown += 1 for a pair: no resolved name, or a placeholder object.
CountsUnknown(pr) ==
    LET entry == pr[2]
        top_id == _u8_from(entry, 0)
        sub_id == And255(_u16_from(entry, OFF_U16_TYPECONST))
        pre3b  == _u8_from(entry, OFF_PRE_FLAGS_BYTE)
        template_name == _resolve_template_name_from_ids(top_id, sub_id, pre3b)
    IN template_name = ""
       \/ _create_object_from_template_or_placeholder(palette, template_name,
              top_id, sub_id, pre3b).h2a_import_unknown

\* A variant of ReadCalls that reads the slots at one fixed base, whatever was
\* resolved.
ReadCalls_AtFixedBase(base, n) == [i \in 1..n |-> Call("read", SlotAddr(ArrayBaseA, i - 1))]

ReadCalls(base, n) == [i \in 1..n |-> Call("read", SlotAddr(base, i - 1))]

ImportOpenFails ==
    /\ ~hproc
    /\ last' = [NoOp EXCEPT !.op = "import", !.result = "CANCELLED", !.report = "ERROR open",
                            !.calls = <<Call("open_failed", 0)>>]
    /\ UNCHANGED <<registry, caps, palette, hproc, mem, scene, forge_labels, blob_size>>

\* A variant of ImportBaseZero that clears the scene before it resolves the base.
ImportBaseZero_ClearsFirst ==
    /\ last' = [NoOp EXCEPT !.op = "import", !.result = "CANCELLED", !.report = "ERROR base",
                            !.calls = <<Call("open", 0), Call("resolve", 0), Call("close", 0)>>]
    /\ hproc' = FALSE
    /\ scene' = <<>>
    /\ UNCHANGED <<registry, caps, palette, mem, forge_labels, blob_size>>

ImportBaseZero ==
    /\ last' = [NoOp EXCEPT !.op = "import", !.result = "CANCELLED", !.report = "ERROR base",
                            !.calls = <<Call("open", 0), Call("resolve", 0), Call("close", 0)>>]
    /\ hproc' = FALSE
    /\ UNCHANGED <<registry, caps, palette, mem, scene, forge_labels, blob_size>>

\* In a set of reads that may fail: the read of the label blob.
BlobRead == -1

\* import_limit and import_clear_existing are the scene's settings at the
\* time of the call, among `limits` and `clears`; blobRead: the label blob
\* read succeeds; failAt: the first slot whose read fails, one of `failReads`
\* or none (maxObjectCount).
ImportCompletes(limits, clears, failReads) ==
    \E import_limit \in limits \cap (1..maxObjectCount),
       failAt \in (failReads \cap Slots) \cup {maxObjectCount} :
    \E sc \in {_read_all_entries_from_memory(mem, import_limit, failAt)} :
    \E made \in {[i \in 1..Len(sc.entries) |-> ImportOne(forge_labels, sc.entries[i])]} :
    \E base \in Bases, import_clear_existing \in clears,
       blobRead \in {TRUE} \cup {FALSE : x \in failReads \cap {BlobRead}} :
        LET kept == IF import_clear_existing THEN <<>> ELSE scene
        IN
        /\ Len(kept) + Len(made) <= MaxScene
        /\ scene' = kept \o made
        /\ blob_size' = IF blobRead THEN LABEL_BLOB_SIZE ELSE blob_size
        /\ last' = [NoOp EXCEPT
                      !.op = "import", !.result = "FINISHED", !.report = "INFO",
                      !.base = base, !.limit = import_limit, !.read_failed = sc.failed,
                      !.imported = Len(made),
                      !.unknown = Cardinality({i \in 1..Len(sc.entries) :
                                                  CountsUnknown(sc.entries[i])}),
                      !.pairs = sc.entries,
                      !.calls = <<Call("open", 0), Call("resolve", base),
                                  Call("read", base - LABEL_BLOB_BACK)>>
                                \o ReadCalls(base, sc.reads) \o <<Call("close", 0)>>]
        /\ hproc' = FALSE
        /\ UNCHANGED <<registry, caps, palette, mem, forge_labels>>

H2AForgeImportMemory(limits, clears, failReads) ==
    \/ ImportOpenFails
    \/ ImportBaseZero
    \/ ImportCompletes(limits, clears, failReads)

(***************************************************************************)
(* Label blobs of the target process.  A blob is written here without the  *)
(* NUL bytes that pad it to LABEL_BLOB_SIZE: the parser drops empty parts. *)
(***************************************************************************)
LongLabelCount == 257

\* Three lower-case letters, distinct for distinct i < 26^3.
LongName(i) == <<97 + ((i \div 676) % 26), 97 + ((i \div 26) % 26), 97 + (i % 26)>>

RECURSIVE LongBlobFrom(_, _)
LongBlobFrom(lo, hi) ==
    IF lo > hi THEN <<>>
    ELSE IF lo = hi THEN LongName(lo) \o <<0>>
    ELSE LongBlobFrom(lo, (lo + hi) \div 2) \o LongBlobFrom(((lo + hi) \div 2) + 1, hi)

NameScale == <<83, 99, 97, 108, 101>>
NameScaleLower == <<115, 99, 97, 108, 101>>
NameRed == <<82, 101, 100>>
NameBlue == <<66, 108, 117, 101>>

LabelBlob(id) ==
    CASE id = "ScaleRed" -> NameScale \o <<0>> \o NameRed \o <<0>>
      [] id = "RedScale" -> NameRed \o <<0>> \o NameScale \o <<0>>
      [] id = "RedBlue"  -> NameRed \o <<0>> \o NameBlue \o <<0>>
      [] id = "CaseVariants" -> NameScaleLower \o <<0>> \o NameScale \o <<0>> \o NameRed \o <<0>>
      \* padded, repeated, one-letter and unprintable parts around Red and Blue
      [] id = "Messy" -> <<32, 32>> \o NameRed \o <<32, 0, 0, 120, 0>> \o NameRed
                         \o <<0, 1, 2, 3, 0, 200, 66, 0>> \o NameBlue \o <<9, 0>>
      [] id = "Garbage" -> <<1, 2, 0, 97, 0, 32, 32, 32, 0>>
      [] id = "Long" -> LongBlobFrom(0, LongLabelCount - 1)

BlobIds == {"ScaleRed", "RedScale", "RedBlue", "CaseVariants", "Messy", "Garbage", "Long"}

\* parse_forge_labels_from_blob of each blob, computed once.
ParsedLabels == [id \in BlobIds |-> parse_forge_labels_from_blob(LabelBlob(id))]

(***************************************************************************)
(* Refresh labels (memory.py:1721-1760).                                   *)
(***************************************************************************)
RefreshOpenFails ==
    /\ ~hproc
    /\ last' = [NoOp EXCEPT !.op = "refresh", !.result = "CANCELLED", !.report = "ERROR open",
                            !.calls = <<Call("open_failed", 0)>>]
    /\ UNCHANGED <<registry, caps, palette, hproc, mem, scene, forge_labels, blob_size>>

RefreshBaseZero ==
    /\ last' = [NoOp EXCEPT !.op = "refresh", !.result = "CANCELLED", !.report = "ERROR base",
                            !.calls = <<Call("open", 0), Call("resolve", 0), Call("close", 0)>>]
    /\ hproc' = FALSE
    /\ UNCHANGED <<registry, caps, palette, mem, scene, forge_labels, blob_size>>

RefreshReadFails ==
    \E base \in Bases :
        /\ last' = [NoOp EXCEPT
                      !.op = "refresh", !.result = "CANCELLED", !.report = "ERROR read",
                      !.base = base,
                      !.calls = <<Call("open", 0), Call("resolve", base),
                                  Call("read", base - LABEL_BLOB_BACK), Call("close", 0)>>]
        /\ hproc' = FALSE
        /\ UNCHANGED <<registry, caps, palette, mem, scene, forge_labels, blob_size>>

\* The blob read succeeds and holds one of `blobs`; last.args names the blob.
RefreshReads(blobs) ==
    \E base \in Bases, id \in blobs :
        LET labels == ParsedLabels[id]
            table  == [i \in 1..Len(labels) |-> [name |-> labels[i], index |-> i - 1]]
            calls  == <<Call("open", 0), Call("resolve", base),
                        Call("read", base - LABEL_BLOB_BACK), Call("close", 0)>>
        IN
        /\ IF labels = <<>>
           THEN /\ last' = [NoOp EXCEPT
                              !.op = "refresh", !.result = "CANCELLED",
                              !.report = "ERROR parse", !.base = base, !.calls = calls,
                              !.args = <<id>>]
                /\ UNCHANGED <<forge_labels, scene>>
           ELSE /\ forge_labels' = table
                /\ scene' = _rebind_all_objects_after_label_refresh(table, scene)
                /\ last' = [NoOp EXCEPT
                              !.op = "refresh", !.result = "FINISHED", !.report = "INFO",
                              !.base = base, !.calls = calls, !.args = <<id>>]
        /\ hproc' = FALSE
        /\ UNCHANGED <<registry, caps, palette, mem, blob_size>>

H2AForgeRefreshLabels(blobs) ==
    \/ RefreshOpenFails
    \/ RefreshBaseZero
    \/ RefreshReadFails
    \/ RefreshReads(blobs)

(***************************************************************************)
(* What the user does in the editor.                                       *)
(***************************************************************************)
\* AddForgeObject.execute (panels.py:207-217) with an object type whose palette
\* collection exists.
AddForgeObject(names) ==
    \E objectType \in names \cap palette :
        /\ Len(scene) < MaxScene
        /\ scene' = Append(scene, createForgeObject(objectType))
        /\ last' = [NoOp EXCEPT !.op = "add", !.result = "FINISHED"]
        /\ UNCHANGED <<registry, caps, palette, hproc, mem, forge_labels, blob_size>>

\* The user picks an item of the label dropdown k of a record
\* (panels.py:142-145, 287-290).
PickLabel(names, ks) ==
    \E i \in 1..Len(scene), k \in ks \cap (1..4),
       target \in (names \cap LabelEnumIdentifiers(forge_labels)) \cup {LABEL_NONE_ID} :
        /\ scene' = [scene EXCEPT ![i] = _on_label_enum_update([@ EXCEPT !.label_enum[k] = target])]
        /\ last' = [NoOp EXCEPT !.op = "pick_label", !.result = "FINISHED"]
        /\ UNCHANGED <<registry, caps, palette, hproc, mem, forge_labels, blob_size>>

\* The user picks an item of the Object Type dropdown of a record
\* (panels.py:58-64, 261); last.args names the record and the type.
PickTemplate(names) ==
    \E i \in 1..Len(scene), name \in names \cap RegistryNames :
        /\ scene' = [scene EXCEPT ![i] = SetTemplateName(@, name)]
        /\ last' = [NoOp EXCEPT !.op = "pick_template", !.result = "FINISHED",
                                !.args = <<i, name>>]
        /\ UNCHANGED <<registry, caps, palette, hproc, mem, forge_labels, blob_size>>

(***************************************************************************)
(* Initial states.                                                         *)
(***************************************************************************)
Entry(name, top, sub, pre3b) == [name |-> name, top |-> top, sub |-> sub, pre3b |-> pre3b]

\* Three entries of OBJECT_TYPE_INFO (memory.py:125, 154, 250), in its order.
RegistrySample ==
    <<Entry("Magnum", 0, 0, 0), Entry("Gungoose", 28, 1, 0), Entry("Initial Spawn", 51, 0, 16)>>

\* Registries of the same shape in which two names share the pair (42, 0):
\* the lower pre3b inserted first, and inserted last.
RegistryLowFirst ==
    <<Entry("Magnum", 0, 0, 0), Entry("Node B", 42, 0, 13), Entry("Node A", 42, 0, 14)>>
RegistryLowLast ==
    <<Entry("Magnum", 0, 0, 0), Entry("Node A", 42, 0, 14), Entry("Node B", 42, 0, 13)>>

\* What the provider library may export (memory.py:1062-1095).
CapSets ==
    { [set_total |-> FALSE, finalize |-> FALSE, post_export |-> FALSE],
      [set_total |-> TRUE,  finalize |-> FALSE, post_export |-> TRUE],
      [set_total |-> TRUE,  finalize |-> TRUE,  post_export |-> TRUE] }

\* An entry as another writer of the array lays it out: the template with
\* the type id at 0x00, byte 1 clear, 1.0 at 0x2A, the sub id at 0x30 and the
\* pre-flags byte at 0x3B.
RawEntry(top, sub, pre3b) ==
    [o \in Offsets |->
        IF o = 0 THEN top
        ELSE IF o = 1 THEN 0
        ELSE IF o \in OFF_F32_A..(OFF_F32_A + 3) THEN _pack_f32(1)[o - OFF_F32_A + 1]
        ELSE IF o = OFF_U16_TYPECONST THEN sub
        ELSE IF o = OFF_U16_TYPECONST + 1 THEN 0
        ELSE IF o = OFF_PRE_FLAGS_BYTE THEN pre3b
        ELSE EMPTY_SLOT_BYTES[o]]

\* Entries some earlier writer left in the array.
StaleSpawn(more) ==
    _set_tail_flag([RawEntry(51, 0, 16) EXCEPT ![OFF_LABEL_1] = 1, ![OFF_LABEL_2] = 0],
                   more)
StaleUnknown(more) ==
    _set_tail_flag([RawEntry(255, 7, 9) EXCEPT ![OFF_LABEL_1] = 0], more)
StaleNode(more) == _set_tail_flag(RawEntry(42, 0, 9), more)
StaleEmpty(more) == _set_tail_flag(EMPTY_SLOT_BYTES, more)
\* An entry that names the labels 1, 0 and 2 of the table.
StaleLabelled(more) ==
    _set_tail_flag([RawEntry(28, 1, 0) EXCEPT
                       ![OFF_LABEL_1] = 1, ![OFF_LABEL_2] = 0, ![OFF_LABEL_3] = 2], more)

\* Prior contents of the slot array.
MemoryOf(id) ==
    [i \in Slots |->
        CASE id = "Empty" -> StaleEmpty(FALSE)
          \* a full chain: every slot live
          [] id = "Full" -> IF i % 2 = 0 THEN StaleSpawn(i < maxObjectCount - 1)
                            ELSE StaleUnknown(i < maxObjectCount - 1)
          \* the chain ends at slot 1, live entries follow
          [] id = "EndsAtOne" -> IF i = 0 THEN StaleUnknown(TRUE)
                                 ELSE IF i = 1 THEN StaleNode(FALSE) ELSE StaleSpawn(TRUE)
          \* an empty entry with its chain flag set, inside the chain
          [] id = "Hole" -> IF i = 0 THEN StaleSpawn(TRUE)
                            ELSE IF i = 1 THEN StaleEmpty(TRUE) ELSE StaleNode(FALSE)
          \* an empty entry with its chain flag clear after a chained entry
          [] id = "HoleClear" -> IF i = 0 THEN StaleNode(TRUE)
                                 ELSE IF i = 1 THEN StaleEmpty(FALSE) ELSE StaleSpawn(FALSE)
          \* one labelled entry
          [] id = "Labelled" -> IF i = 0 THEN StaleLabelled(FALSE) ELSE StaleEmpty(FALSE)
          \* slot 0 empty, live entries follow
          [] id = "EmptyHead" -> IF i = 0 THEN StaleEmpty(TRUE) ELSE StaleUnknown(i % 2 = 1)]

MemoryIds == {"Empty", "Full", "EndsAtOne", "Hole", "HoleClear", "EmptyHead"}

InitWith(registries, capsets, palettes, memories) ==
    /\ registry \in registries
    /\ caps \in capsets
    /\ palette \in palettes
    /\ hproc = FALSE
    /\ mem \in {MemoryOf(id) : id \in memories}
    /\ scene = <<>>
    /\ forge_labels = <<>>
    /\ blob_size = 0
    /\ last = NoOp

AllBound == [set_total |-> TRUE, finalize |-> TRUE, post_export |-> TRUE]
NoneBound == [set_total |-> FALSE, finalize |-> FALSE, post_export |-> FALSE]
SamplePalette == {"Magnum", "Gungoose", "Initial Spawn"}

(***************************************************************************)
(* Spec: the three operators under every kind of provider failure.         *)
(***************************************************************************)
Init == InitWith({RegistrySample}, CapSets, {SamplePalette}, {"Full"})

Next ==
    \/ H2AForgeExportMemory({1})
    \/ H2AForgeImportMemory({maxObjectCount}, {TRUE}, {BlobRead, 1})
    \/ H2AForgeRefreshLabels({"RedBlue", "Garbage"})

Spec == Init /\ [][Next]_vars

(***************************************************************************)
(* SpecExport: exports of the records the user adds, over prior content,   *)
(* with a write failing at any slot.                                       *)
(***************************************************************************)
InitExport == InitWith({RegistrySample}, {AllBound}, {SamplePalette}, {"Full"})

NextExport ==
    \/ H2AForgeExportMemory(Slots)
    \/ AddForgeObject({"Gungoose", "Magnum"})

SpecExport == InitExport /\ [][NextExport]_vars

(***************************************************************************)
(* SpecScan: scans of any prior content and of what export leaves, with    *)
(* every import limit.                                                     *)
(***************************************************************************)
InitScan == InitWith({RegistrySample}, {AllBound}, {SamplePalette}, MemoryIds)

NextScan ==
    \/ H2AForgeExportMemory({0})
    \/ H2AForgeImportMemory(1..maxObjectCount, {TRUE}, {})
    \/ AddForgeObject({"Gungoose"})

SpecScan == InitScan /\ [][NextScan]_vars

(***************************************************************************)
(* SpecTypes: import and export over registries with and without a shared  *)
(* (top, sub) pair, with and without palette collections.                  *)
(***************************************************************************)
InitTypes ==
    InitWith({RegistrySample, RegistryLowFirst, RegistryLowLast}, {AllBound},
             {{}, SamplePalette \cup {"Node A", "Node B"}}, {"Full", "EndsAtOne"})

NextTypes ==
    \/ H2AForgeExportMemory({0})
    \/ H2AForgeImportMemory({maxObjectCount}, BOOLEAN, {})

SpecTypes == InitTypes /\ [][NextTypes]_vars

(***************************************************************************)
(* SpecLabels: label tables that change between refreshes, under records   *)
(* that name labels.                                                       *)
(***************************************************************************)
InitLabels == InitWith({RegistrySample}, {AllBound}, {SamplePalette}, {"Labelled"})

NextLabels ==
    \/ H2AForgeExportMemory({0})
    \/ H2AForgeImportMemory({maxObjectCount}, {TRUE}, {})
    \/ H2AForgeRefreshLabels({"ScaleRed", "RedScale", "CaseVariants"})
    \/ PickLabel({NameScale, NameRed}, {1})

SpecLabels == InitLabels /\ [][NextLabels]_vars

(***************************************************************************)
(* SpecEncode: the label bytes of export over a table with names that      *)
(* differ only in case and over a table of LongLabelCount names, the names *)
(* stored by import and by the dropdown.                                   *)
(***************************************************************************)
InitEncode == InitWith({RegistrySample}, {NoneBound}, {SamplePalette}, {"Labelled"})

NextEncode ==
    \/ H2AForgeExportMemory({0})
    \/ H2AForgeImportMemory({maxObjectCount}, {TRUE}, {})
    \/ H2AForgeRefreshLabels({"CaseVariants", "Long"})
    \/ PickLabel({NameScale, LongName(LongLabelCount - 1)}, {1})

SpecEncode == InitEncode /\ [][NextEncode]_vars

(***************************************************************************)
(* SpecFlags: one stale entry whose object-flags byte is any byte, decoded *)
(* by import and packed again by export.                                   *)
(***************************************************************************)
InitFlags ==
    /\ registry = RegistrySample
    /\ caps = NoneBound
    /\ palette = SamplePalette
    /\ hproc = FALSE
    /\ mem \in {[MemoryOf("Empty") EXCEPT
                   ![0] = [StaleSpawn(FALSE) EXCEPT ![OFF_OBJECT_FLAGS] = b]] : b \in Byte}
    /\ scene = <<>>
    /\ forge_labels = <<>>
    /\ blob_size = 0
    /\ last = NoOp

NextFlags ==
    \/ H2AForgeExportMemory({0})
    \/ H2AForgeImportMemory({maxObjectCount}, {TRUE}, {})

SpecFlags == InitFlags /\ [][NextFlags]_vars

(***************************************************************************)
(* SpecRefresh: refreshes over every short blob, well-formed or not, with  *)
(* imports and picks in between.                                           *)
(***************************************************************************)
InitRefresh == InitWith({RegistrySample}, {NoneBound}, {SamplePalette}, {"Labelled"})

NextRefresh ==
    \/ H2AForgeImportMemory({maxObjectCount}, {TRUE}, {})
    \/ H2AForgeRefreshLabels(BlobIds \ {"Long"})
    \/ PickLabel({NameRed, NameBlue}, {4})

SpecRefresh == InitRefresh /\ [][NextRefresh]_vars

(***************************************************************************)
(* SpecCodec: the encoder and the decoder over one record whose scalar     *)
(* fields are drawn from the sets below.  The timer is drawn from a wider  *)
(* range than the property holds, as an input of the encoder.              *)
(***************************************************************************)
TimerValues == {-200, -128, -127, -1, 0, 127, 128, 200}

\* Four settings of the fields that are packed or stored on their own; the
\* fourth holds the lowest spawn sequence the property takes.
CodecVariant(v) ==
    CASE v = 1 -> [DefaultObject EXCEPT
                      !.physics_mode_enum = "NORMAL", !.game_specific_enum = "0",
                      !.symmetry_enum = "NONE", !.place_at_start_enum = "0",
                      !.can_despawn = 0, !.spawn_time = 0, !.spawn_sequence = -127,
                      !.spawn_channel = 0, !.teleporter_channel_enum = 0,
                      !.pass_players_enum = "BLOCK", !.pass_land_enum = "ALLOW",
                      !.pass_heavy_enum = "BLOCK", !.pass_flying_enum = "ALLOW",
                      !.pass_projectiles_enum = "BLOCK"]
      [] v = 2 -> [DefaultObject EXCEPT
                      !.physics_mode_enum = "FIXED", !.game_specific_enum = "1",
                      !.symmetry_enum = "ASYMMETRIC", !.place_at_start_enum = "1",
                      !.can_despawn = 255, !.spawn_time = 255, !.spawn_sequence = 127,
                      !.spawn_channel = 254, !.teleporter_channel_enum = 25,
                      !.pass_players_enum = "ALLOW", !.pass_land_enum = "BLOCK",
                      !.pass_heavy_enum = "ALLOW", !.pass_flying_enum = "BLOCK",
                      !.pass_projectiles_enum = "ALLOW"]
      [] v = 3 -> [DefaultObject EXCEPT
                      !.symmetry_enum = "SYMMETRIC", !.can_despawn = 1,
                      !.spawn_time = 30, !.spawn_sequence = -1]
      [] v = 4 -> [DefaultObject EXCEPT !.spawn_sequence = -128]

\* The records of SpecCodec: a Gungoose with each setting, team, colour and
\* timer, chosen independently.
CodecRecords ==
    {[CodecVariant(v) EXCEPT
         !.template_name = "Gungoose", !.team_enum = team,
         !.object_color_enum = colour, !.timer_user_data = timer] :
       v \in 1..4, team \in {"0", "5", "8"}, colour \in {"FF", "1", "7"},
       timer \in TimerValues}

InitCodec ==
    /\ registry = RegistrySample
    /\ caps = NoneBound
    /\ palette = SamplePalette
    /\ hproc = FALSE
    /\ mem = MemoryOf("Empty")
    /\ scene \in {<<r>> : r \in CodecRecords}
    /\ forge_labels = <<>>
    /\ blob_size = 0
    /\ last = NoOp

NextCodec ==
    \/ H2AForgeExportMemory({0})
    \/ H2AForgeImportMemory({maxObjectCount}, {TRUE}, {})

SpecCodec == InitCodec /\ [][NextCodec]_vars

(***************************************************************************)
(* Scaling logic (memory.py:781-844).  A scale is held in hundredths, as   *)
(* an integer: 0.01 is 1 and 1.0 is 100.  Every branch of the source gives *)
(* a whole number of hundredths in exact arithmetic; the rounding of the   *)
(* floating-point products is not modelled.                                *)
(***************************************************************************)
\* The loop of recursive_330x with each increment taken from the first value.
recursive_330x_of_base(i, scale) ==
    IF i <= 0 THEN scale
    ELSE scale + i * (scale \div 33 + scale \div 228)

\* for _ in range(i): scale += scale // 33 + scale // 228
\* The i iterations are run as two halves, the second from the value the
\* first has reached, which keeps the evaluation shallow.
RECURSIVE recursive_330x(_, _)
recursive_330x(i, scale) ==
    IF i <= 0 THEN scale
    ELSE IF i = 1 THEN scale + scale \div 33 + scale \div 228
    ELSE CHOOSE v \in {recursive_330x(i - i \div 2, half) :
                          half \in {recursive_330x(i \div 2, scale)}} : TRUE

\* The variant of spawnSeqToScale that compounds from 100 for either team.
spawnSeqToScale_one_base(spawnSequence, convention, team) ==
    IF spawnSequence = (IF convention = "330X" THEN -20 ELSE -10) THEN 1
    ELSE IF spawnSequence < -20 THEN recursive_330x(spawnSequence + 201, 100)
    ELSE IF spawnSequence > 0 THEN recursive_330x(spawnSequence, 100)
    ELSE 100 + 5 * spawnSequence

\* The variant of spawnSeqToScale whose 1X branch follows the value.
spawnSeqToScale_linear_1x(spawnSequence, convention, team) ==
    IF spawnSequence = (IF convention = "330X" THEN -20 ELSE -10) THEN 1
    ELSE 100 + 10 * spawnSequence

spawnSeqToScale(spawnSequence, convention, team) ==
    LET one_percent_seq == IF convention = "330X" THEN -20 ELSE -10
        lthn10 == spawnSequence < -10
        gthn71 == spawnSequence > -71
        gthn41 == spawnSequence > -41
        \* 33X (mul = -2, add = 800, sub = 800) and 71X (-4, 600, 9000)
        tenths(mul, add, sub) ==
            LET s0 == 10 * spawnSequence
                s1 == IF spawnSequence < -10
                      THEN IF spawnSequence > -81 THEN s0 * mul + add
                           ELSE IF spawnSequence < -80 THEN (-mul) * (s0 * mul) - sub
                           ELSE s0 * mul
                      ELSE s0
            IN s1 + 100
        s47a == IF lthn10
                THEN IF gthn71
                     THEN 2 * (spawnSequence + 101) * (IF gthn41 THEN 3 ELSE 2)
                     ELSE 2 * (spawnSequence + 101)
                ELSE spawnSequence
        s47b == 10 * s47a + 100
        s47 == IF lthn10
               THEN IF gthn71
                    THEN s47b + 1000 - (IF gthn41 THEN 1800 ELSE 600)
                    ELSE s47b + 1000
               ELSE s47b
        i330 == IF spawnSequence < 0
                THEN IF spawnSequence <= -20 THEN spawnSequence + 201
                     ELSE 5 * spawnSequence
                ELSE spawnSequence
        s330a == IF spawnSequence < 0
                 THEN IF spawnSequence = -20 THEN 1 ELSE 100 + 5 * spawnSequence
                 ELSE 100
        s330 == IF spawnSequence < -20 \/ spawnSequence > 0
                THEN recursive_330x(i330, IF team = "RED" THEN 32732 ELSE 100)
                ELSE s330a
    IN IF spawnSequence = one_percent_seq THEN 1
       ELSE CASE convention = "1X" -> 100
              [] convention = "33X" -> tenths(-2, 800, 800)
              [] convention = "71X" -> tenths(-4, 600, 9000)
              [] convention = "47X" -> s47
              [] convention = "330X" -> s330
              [] OTHER -> 100

(***************************************************************************)
(* SpecScale: the two scaling functions applied to arguments drawn at the  *)
(* start; recursive_330x is then applied again with one more iteration.    *)
(***************************************************************************)
MaxIter == 180

InitScale ==
    /\ registry = RegistrySample
    /\ caps = NoneBound
    /\ palette = SamplePalette
    /\ hproc = FALSE
    /\ mem = MemoryOf("Empty")
    /\ scene = <<>>
    /\ forge_labels = <<>>
    /\ blob_size = 0
    /\ last \in {[NoOp EXCEPT !.args = <<v, c, t>>] :
                    v \in -128..127,
                    c \in {"1X", "33X", "71X", "47X", "330X", "2X"},
                    t \in {"RED", "NONE"}}
            \cup {[NoOp EXCEPT !.args = <<0, b>>] :
                    b \in {-100, -1, 0, 1, 32, 33, 100, 228, 32732}}

ApplySpawnSeqToScale ==
    /\ last.op = "none" /\ Len(last.args) = 3
    /\ last' = [last EXCEPT !.op = "spawnSeqToScale",
                            !.value = spawnSeqToScale(last.args[1], last.args[2],
                                                      last.args[3])]
    /\ UNCHANGED <<registry, caps, hproc, mem, scene, forge_labels, blob_size, palette>>

ApplyRecursive330x ==
    /\ last.op = "none" /\ Len(last.args) = 2
    /\ last' = [last EXCEPT !.op = "recursive_330x",
                            !.value = recursive_330x(last.args[1], last.args[2])]
    /\ UNCHANGED <<registry, caps, hproc, mem, scene, forge_labels, blob_size, palette>>

ApplyRecursive330xOnceMore ==
    /\ last.op = "recursive_330x" /\ last.args[1] < MaxIter
    /\ last' = [last EXCEPT !.args = <<last.args[1] + 1, last.args[2]>>,
                            !.value = recursive_330x(last.args[1] + 1, last.args[2])]
    /\ UNCHANGED <<registry, caps, hproc, mem, scene, forge_labels, blob_size, palette>>

NextScale == ApplySpawnSeqToScale \/ ApplyRecursive330x \/ ApplyRecursive330xOnceMore

SpecScale == InitScale /\ [][NextScale]_vars

(***************************************************************************)
(* SpecAssign: records imported from registry and non-registry triples,    *)
(* given another type in the Object Type dropdown, and exported.           *)
(***************************************************************************)
InitAssign == InitWith({RegistrySample}, {NoneBound}, {SamplePalette}, {"Full"})

NextAssign ==
    \/ H2AForgeExportMemory({0})
    \/ H2AForgeImportMemory({maxObjectCount}, {TRUE}, {})
    \/ PickTemplate({"Gungoose"})

SpecAssign == InitAssign /\ [][NextAssign]_vars

(***************************************************************************)
(* Properties.                                                             *)
(***************************************************************************)
\* The records export has an entry for, in scene order.
LiveRecords(objs) == SelectSeq(objs, LAMBDA o : get_export_type_triple(o) # <<>>)

\* An entry with its two chain-flag bytes blanked.
WithoutFlag(e) == [e EXCEPT ![OFF_TAIL_FLAG] = 0, ![OFF_TAIL_FLAG + 1] = 0]

\* Slot i holds record i of `live`, chained exactly when a record follows.
HoldsRecord(memory, labels, live, n, i) ==
    /\ memory[i][OFF_TAIL_FLAG] = (IF i < n - 1 THEN 1 ELSE 0)
    /\ memory[i][OFF_TAIL_FLAG + 1] = 0
    /\ WithoutFlag(memory[i]) = WithoutFlag(build_entry_bytes(labels, live[i + 1]))

\* Slot i is the empty template, chain flag 0.
HoldsTemplate(memory, i) ==
    /\ memory[i] = EMPTY_SLOT_BYTES
    /\ memory[i][OFF_TAIL_FLAG] = 0

FnCalls(l, fns) == {c \in 1..Len(l.calls) : l.calls[c].fn \in fns}

\* The slot reads or writes of an operation.
SlotCalls(l, fn) == {c \in FnCalls(l, {fn}) : l.calls[c].arg >= l.base}

\* C1: after an export that succeeds with N live records, slots 0..N-1 hold
\* the records in order, chain flag 1 on 0..N-2 and 0 on N-1, every slot from
\* N on is the empty template with chain flag 0, and all the slots were
\* written.
C1_ExportWritesEverySlot ==
    (last.op = "export" /\ last.result = "FINISHED") =>
        LET live == LiveRecords(scene)
            n    == Min(Len(live), maxObjectCount)
        IN /\ last.written = n
           /\ Cardinality(SlotCalls(last, "write")) = maxObjectCount
           /\ \A i \in Slots :
                IF i < n THEN HoldsRecord(mem, forge_labels, live, n, i)
                ELSE HoldsTemplate(mem, i)

\* An export of fewer records than slots, at least two, has succeeded.
C1_Witness ==
    /\ last.op = "export" /\ last.result = "FINISHED"
    /\ last.written = maxObjectCount - 1
    /\ mem[0][OFF_TAIL_FLAG] = 1
    /\ mem[maxObjectCount - 1] = EMPTY_SLOT_BYTES

\* C4: when the write of slot k fails the export stops there: slots below k
\* hold the new content, slots above k keep what they held and are not
\* written, the report names slot k and base + k*76, the result is CANCELLED,
\* and neither the total counter nor the post-export call is made.
C4_WriteFailureAborts ==
    /\ [](last.op = "export" /\ last.fail_slot >= 0 =>
            LET k    == last.fail_slot
                live == LiveRecords(scene)
                n    == Min(Len(live), maxObjectCount)
            IN /\ last.result = "CANCELLED"
               /\ last.report = "ERROR write"
               /\ last.fail_addr = last.base + k * 76
               /\ \A i \in 0..(k - 1) :
                    IF i < n THEN HoldsRecord(mem, forge_labels, live, n, i)
                    ELSE HoldsTemplate(mem, i)
               /\ {last.calls[c].arg : c \in FnCalls(last, {"write"})}
                     = {last.base + i * 76 : i \in 0..k}
               /\ Cardinality(FnCalls(last, {"write"})) = k + 1
               /\ FnCalls(last, {"set_total", "finalize", "post_export"}) = {}
               /\ last.calls[Len(last.calls)].fn = "close")
    /\ [][(last'.op = "export" /\ last'.fail_slot >= 0) =>
             /\ scene' = scene
             /\ forge_labels' = forge_labels
             /\ \A i \in Slots : i > last'.fail_slot => mem'[i] = mem[i]
         ]_vars

\* The write of slot 1 has failed over a record in slot 0 and old content in
\* the last slot, with the total counter and the finalize call both bound.
C4_Witness ==
    /\ last.op = "export" /\ last.fail_slot = 1 /\ last.result = "CANCELLED"
    /\ Len(scene) >= 2
    /\ mem[0][0] = 28
    /\ mem[maxObjectCount - 1] = MemoryOf("Full")[maxObjectCount - 1]
    /\ caps.set_total /\ caps.finalize

\* The slots an operation read, from the addresses of its slot reads.
SlotsRead(l) == {i \in Slots : \E c \in SlotCalls(l, "read") : l.calls[c].arg = SlotAddr(l.base, i)}

\* The entries export writes for the records `objs`, each paired with its
\* slot, chained exactly when a record follows.
ExportedPairs(labels, objs) ==
    LET live == LiveRecords(objs)
        n    == Min(Len(live), maxObjectCount)
    IN [j \in 1..n |-> <<j - 1, _set_tail_flag(build_entry_bytes(labels, live[j]), j < n)>>]

\* C2: whatever the array held before, a scan with limit >= N that follows a
\* successful export of N records returns the N exported entries at slots
\* 0..N-1 in order, none when N = 0, and nothing of the earlier content.
C2_ScanAfterExport ==
    [][(/\ last.op = "export" /\ last.result = "FINISHED"
        /\ last'.op = "import" /\ last'.result = "FINISHED" /\ ~last'.read_failed
        /\ last'.limit >= last.written)
       => /\ last'.pairs = ExportedPairs(forge_labels, scene)
          /\ Len(last'.pairs) = last.written
          /\ SlotsRead(last') = 0..Max(last.written - 1, 0)
      ]_vars

\* A scan of the whole array has returned one entry, of top id 0xFF, that an
\* export wrote over an entry of the same type (the earlier one named label 0).
C2_Witness ==
    /\ last.op = "import" /\ last.result = "FINISHED" /\ last.limit = maxObjectCount
    /\ Len(last.pairs) = 1
    /\ last.pairs[1][2][0] = 255
    /\ last.pairs[1][2][OFF_LABEL_1] = NO_LABEL
    /\ mem[1] = EMPTY_SLOT_BYTES

\* C3: a non-empty entry with a clear chain flag is collected and ends the
\* scan: it is the last entry returned and no slot after it is read, whatever
\* the later slots hold and however large the limit is.
C3_ClearFlagEndsScan ==
    (last.op = "import" /\ last.result = "FINISHED") =>
        \A i \in SlotsRead(last) :
            (~last.read_failed /\ ~_entry_is_empty(mem[i]) /\ ~_entry_has_more_after(mem[i]))
            => /\ last.pairs # <<>>
               /\ last.pairs[Len(last.pairs)] = <<i, mem[i]>>
               /\ \A j \in SlotsRead(last) : j <= i
               /\ Cardinality(SlotCalls(last, "read")) = i + 1

\* A scan of the whole array ended at slot 1, whose chain flag is clear; the
\* next slot holds a non-empty entry.
C3_Witness ==
    /\ last.op = "import" /\ last.result = "FINISHED" /\ last.limit = maxObjectCount
    /\ Len(last.pairs) = 2
    /\ last.pairs[2][1] = 1
    /\ ~_entry_has_more_after(mem[1])
    /\ ~_entry_is_empty(mem[2])

\* C5: whatever the provider does (process not found, base 0, a failed read
\* or write, a label blob that parses to nothing), no handle is held once an
\* operation has returned, and an operation that opened the process closed
\* it exactly once, after all its other calls.
C5_HandleReleased ==
    /\ hproc = FALSE
    /\ LET opens  == FnCalls(last, {"open"})
           closes == FnCalls(last, {"close"})
       IN /\ Cardinality(opens) <= 1
          /\ Cardinality(closes) = Cardinality(opens)
          /\ opens # {} => (opens = {1} /\ closes = {Len(last.calls)})
          /\ opens = {} => FnCalls(last, {"resolve", "read", "write", "set_total",
                                           "finalize", "post_export"}) = {}

\* An export whose write of slot 1 failed has returned: it opened the
\* process, wrote, and closed.
C5_Witness ==
    /\ last.op = "export" /\ last.report = "ERROR write" /\ last.fail_slot = 1
    /\ last.calls[1].fn = "open"
    /\ FnCalls(last, {"write"}) # {}
    /\ hproc = FALSE

\* C6: an export, import or refresh whose array base resolves to 0 returns
\* CANCELLED without a provider read or write, and changes neither the scene
\* records nor the label table.
C6_BaseZeroAborts ==
    [][(\E c \in 1..Len(last'.calls) : last'.calls[c] = Call("resolve", 0))
       => /\ last'.op \in {"export", "import", "refresh"}
          /\ last'.result = "CANCELLED"
          /\ FnCalls(last', {"read", "write", "set_total", "finalize", "post_export"}) = {}
          /\ scene' = scene
          /\ forge_labels' = forge_labels
          /\ mem' = mem
      ]_vars

\* An import over a scene that holds records, with a label table loaded, got
\* base 0.
C6_Witness ==
    /\ last.op = "import" /\ last.report = "ERROR base"
    /\ Call("resolve", 0) \in {last.calls[c] : c \in 1..Len(last.calls)}
    /\ Len(scene) > 0
    /\ forge_labels # <<>>

\* The type triple an entry carries.
TripleOf(e) == <<e[0], And255(_u16_from(e, OFF_U16_TYPECONST)), e[OFF_PRE_FLAGS_BYTE]>>

\* The scene record made from pair j of the import that has just returned.
ImportedAt(j) == Len(scene) - Len(last.pairs) + j

C8_UnknownTripleRoundTrips ==
    [][(/\ last.op = "import" /\ last.result = "FINISHED"
        /\ last'.op = "export" /\ last'.result = "FINISHED")
       => \A j \in 1..Len(last.pairs) :
            LET e    == last.pairs[j][2]
                t    == TripleOf(e)
                slot == Len(LiveRecords(SubSeq(scene, 1, ImportedAt(j) - 1)))
            IN (PairPositions(t[1], t[2]) = {} /\ slot < maxObjectCount)
               => /\ LiveRecords(scene)[slot + 1] = scene[ImportedAt(j)]
                  /\ mem'[slot][0] = e[0]
                  /\ mem'[slot][OFF_U16_TYPECONST] = e[OFF_U16_TYPECONST]
                  /\ mem'[slot][OFF_PRE_FLAGS_BYTE] = e[OFF_PRE_FLAGS_BYTE]
                  /\ TripleOf(mem'[slot]) = t
      ]_vars

\* An export has written back the triple (0xFF, 7, 9) of an imported entry
\* that the registry does not know; the entry has been rebuilt (the one in
\* the array before named label 0).
C8_Witness ==
    /\ last.op = "export" /\ last.result = "FINISHED"
    /\ Len(scene) > 0 /\ scene[1].unmapped.set
    /\ scene[1].h2a_import_slot = 0
    /\ TripleOf(mem[0]) = <<255, 7, 9>>
    /\ mem[0][OFF_LABEL_1] = NO_LABEL

\* C9: whatever refreshes came before, an export writes for a stored label
\* name that the current table holds the index the current table gives that
\* name.
C9_ExportWritesLatestIndex ==
    (last.op = "export" /\ last.result = "FINISHED") =>
        LET live == LiveRecords(scene) IN
        \A j \in 1..Min(Len(live), maxObjectCount), k \in 1..4, t \in 1..Len(forge_labels) :
            (live[j].label_name[k] # <<>> /\ forge_labels[t].name = live[j].label_name[k])
            => mem[j - 1][OFF_LABEL_1 + k - 1] = forge_labels[t].index

\* The table positions whose name equals nm ignoring case.
SameNameIgnoringCase(labels, nm) ==
    {t \in 1..Len(labels) : Lower(Strip(labels[t].name)) = Lower(Strip(nm))}

\* C10: each of the four label bytes export writes is the index of the first
\* entry of the current table whose name equals the stored name ignoring
\* case, and 0xFF when the stored name is empty or the table has no such
\* entry.
C10_LabelByteIsFirstMatch ==
    (last.op = "export" /\ last.result = "FINISHED") =>
        LET live == LiveRecords(scene) IN
        \A j \in 1..Min(Len(live), maxObjectCount), k \in 1..4 :
            LET nm == live[j].label_name[k]
                M  == SameNameIgnoringCase(forge_labels, nm)
            IN mem[j - 1][OFF_LABEL_1 + k - 1] =
                  IF Strip(nm) = <<>> \/ M = {} THEN NO_LABEL
                  ELSE forge_labels[CHOOSE t \in M : \A u \in M : t <= u].index

\* C11: after a successful refresh, whatever the blob held, no entry of the
\* label table has index 0xFF.
C11_NoEntryAtIndexFF ==
    (last.op = "refresh" /\ last.result = "FINISHED") =>
        \A t \in 1..Len(forge_labels) : forge_labels[t].index # NO_LABEL

\* The scalar fields of a record.
ScalarFields(p) ==
    <<p.physics_mode_enum, p.game_specific_enum, p.symmetry_enum, p.place_at_start_enum,
      p.can_despawn, p.team_enum, p.spawn_time, p.object_color_enum, p.spawn_sequence,
      p.timer_user_data, p.spawn_channel, p.teleporter_channel_enum,
      p.pass_players_enum, p.pass_land_enum, p.pass_heavy_enum, p.pass_flying_enum,
      p.pass_projectiles_enum>>

\* Every scalar field of the record is within its declared domain.
WellFormed(p) ==
    /\ p.can_despawn \in Byte /\ p.spawn_time \in Byte /\ p.spawn_channel \in Byte
    /\ p.team_enum \in {"0", "1", "2", "3", "4", "5", "6", "7", "8"}
    /\ p.object_color_enum \in {"0", "1", "2", "3", "4", "5", "6", "7", "FF"}
    /\ p.spawn_sequence \in -127..127
    /\ p.timer_user_data \in -127..127
    /\ p.teleporter_channel_enum \in (0..25) \cup {255}

\* C12: decoding the entry that encoding a well-formed record produced gives
\* back every scalar field of the record.
C12_ScalarsRoundTrip ==
    [][(/\ last.op = "export" /\ last.result = "FINISHED" /\ last.written = 1
        /\ last'.op = "import" /\ last'.result = "FINISHED" /\ Len(last'.pairs) = 1
        /\ Len(scene) = 1 /\ WellFormed(scene[1]))
       => ScalarFields(scene'[1]) = ScalarFields(scene[1])
      ]_vars

\* C13: whatever integer the timer holds, the export writes at 0x42 the
\* two's-complement byte of the timer clamped to [-127, 127] (200 gives 127,
\* -200 gives -127); the byte 0x80 is never written.
C13_TimerByteClamped ==
    (last.op = "export" /\ last.result = "FINISHED" /\ last.written = 1 /\ Len(scene) = 1) =>
        LET v == scene[1].timer_user_data
            c == IF v < -127 THEN -127 ELSE IF v > 127 THEN 127 ELSE v
        IN /\ mem[0][OFF_TIMER_USER] = (IF c < 0 THEN c + 256 ELSE c)
           /\ mem[0][OFF_TIMER_USER] # 128
           /\ v = 200 => mem[0][OFF_TIMER_USER] = 127
           /\ v = -200 => mem[0][OFF_TIMER_USER] = 129

\* A record whose timer is -200 has been exported as the byte of -127.
C13_Witness ==
    /\ last.op = "export" /\ last.result = "FINISHED" /\ last.written = 1
    /\ Len(scene) = 1 /\ scene[1].timer_user_data = -200
    /\ mem[0][OFF_TIMER_USER] = 129

\* C14: the scale is 0.01 at -10 for 1X, 33X, 71X and 47X and at -20 for
\* 330X, with either team flag; for 1X it is 1.0 at every other value, 0
\* included.
C14_OnePercentAndOneX ==
    last.op = "spawnSeqToScale" =>
        LET v == last.args[1]
            c == last.args[2]
        IN /\ (v = -10 /\ c \in {"1X", "33X", "71X", "47X"}) => last.value = 1
           /\ (v = -20 /\ c = "330X") => last.value = 1
           /\ (v = 0 /\ c = "1X") => last.value = 100
           /\ (v # -10 /\ c = "1X") => last.value = 100

\* The scale of -10 under 47X for the defender team has been computed as 0.01.
C14_Witness ==
    /\ last.op = "spawnSeqToScale"
    /\ last.args = <<-10, "47X", "RED">>
    /\ last.value = 1

\* C15: recursive_330x(0, base) is base for every base; for a positive base
\* one more iteration adds floor(cur/33) + floor(cur/228) to the value cur
\* reached so far, so the result never decreases with the iteration count.
C15_CompoundingNeverDecreases ==
    /\ []((last.op = "recursive_330x" /\ last.args[1] = 0) => last.value = last.args[2])
    /\ [][(/\ last.op = "recursive_330x" /\ last'.op = "recursive_330x"
           /\ last'.args = <<last.args[1] + 1, last.args[2]>>
           /\ last.args[2] > 0)
          => /\ last'.value >= last.value
             /\ last'.value = last.value + last.value \div 33 + last.value \div 228
         ]_vars

\* Base 100 has been compounded MaxIter times, to 32732 or more.
C15_Witness ==
    /\ last.op = "recursive_330x"
    /\ last.args = <<MaxIter, 100>>
    /\ last.value >= 32732

\* C17: an empty entry read at a slot i > 0 ends the scan exactly when the
\* entry before it has its chain flag clear; after an entry whose flag is set
\* the scan goes on to slot i + 1 whatever the empty entry's own flag bytes
\* are, and collects that slot when it is not empty.
C17_EmptyEntryFollowsPreviousFlag ==
    (last.op = "import" /\ last.result = "FINISHED" /\ ~last.read_failed) =>
        \A i \in SlotsRead(last) :
            (i > 0 /\ i + 1 < last.limit /\ _entry_is_empty(mem[i])) =>
                /\ (i + 1 \in SlotsRead(last)) <=> _entry_has_more_after(mem[i - 1])
                /\ (_entry_has_more_after(mem[i - 1]) /\ ~_entry_is_empty(mem[i + 1]))
                   => \E j \in 1..Len(last.pairs) : last.pairs[j] = <<i + 1, mem[i + 1]>>

\* C18: when slot 0 is empty the scan returns no entry and reads no slot but
\* slot 0, whatever the chain flag of slot 0 is and whatever the later slots
\* hold.
C18_EmptyHeadEndsScan ==
    (/\ last.op = "import" /\ last.result = "FINISHED" /\ ~last.read_failed
     /\ _entry_is_empty(mem[0])) =>
        /\ last.pairs = <<>>
        /\ last.imported = 0
        /\ SlotsRead(last) = {0}
        /\ Cardinality(SlotCalls(last, "read")) = 1

\* A scan of the whole array has run over an empty slot 0 whose chain flag is
\* set and which is followed by a non-empty entry.
C18_Witness ==
    /\ last.op = "import" /\ last.result = "FINISHED" /\ last.limit = maxObjectCount
    /\ _entry_is_empty(mem[0]) /\ _entry_has_more_after(mem[0])
    /\ ~_entry_is_empty(mem[1])
    /\ last.pairs = <<>>

\* The addresses an operation may derive from `base`.
AddressesOf(base) == {SlotAddr(base, i) : i \in Slots} \cup {base - LABEL_BLOB_BACK}

\* C19: an operation that opened the process resolved the array base exactly
\* once, before any read or write, and every address it read or wrote is
\* base + i*76 or base - 0x120A for that result; when the result differs from
\* the one of the operation before, no address of the earlier base is used.
C19_BaseResolvedPerOperation ==
    /\ [](FnCalls(last, {"open"}) # {} =>
            /\ Cardinality(FnCalls(last, {"resolve"})) = 1
            /\ \A r \in FnCalls(last, {"resolve"}) :
                 /\ last.calls[r].arg = last.base
                 /\ \A c \in FnCalls(last, {"read", "write"}) :
                      /\ r < c
                      /\ last.base # 0
                      /\ last.calls[c].arg \in AddressesOf(last.base))
    /\ [][(FnCalls(last', {"open"}) # {} /\ last'.base # last.base) =>
            \A c \in FnCalls(last', {"read", "write"}) :
                /\ last'.calls[c].arg \in AddressesOf(last'.base)
                /\ last'.calls[c].arg \notin AddressesOf(last.base)
         ]_vars

\* An import has resolved the second base and read the label blob and every
\* slot from it.
C19_Witness ==
    /\ last.op = "import" /\ last.result = "FINISHED" /\ last.base = ArrayBaseB
    /\ {last.calls[c].arg : c \in FnCalls(last, {"read"})} = AddressesOf(ArrayBaseB)

\* C20: a label refresh leaves the four label names stored on every record
\* as they were, also when a name is absent from the table just read.
C20_RefreshKeepsStoredNames ==
    [][last'.op = "refresh" =>
          /\ Len(scene') = Len(scene)
          /\ \A r \in 1..Len(scene) : scene'[r].label_name = scene[r].label_name
      ]_vars

\* C21: a refresh that fails, for whatever reason, leaves the label table as
\* it was; one that succeeds leaves exactly the list parsed from the blob it
\* read: at least one name, no name twice, in the order of first occurrence,
\* with indices 0, 1, 2, ... and nothing of the table before.
C21_TableReplacedWholeOrNotAtAll ==
    /\ []((last.op = "refresh" /\ last.result = "FINISHED") =>
            /\ Len(forge_labels) > 0
            /\ \A t \in 1..Len(forge_labels) : forge_labels[t].index = t - 1
            /\ \A t, u \in 1..Len(forge_labels) :
                 forge_labels[t].name = forge_labels[u].name => t = u
            /\ [t \in 1..Len(forge_labels) |-> forge_labels[t].name]
                 = parse_forge_labels_from_blob(LabelBlob(last.args[1])))
    /\ [][(last'.op = "refresh" /\ last'.result # "FINISHED")
            => forge_labels' = forge_labels]_vars

\* A refresh has failed on a blob that parses to no label while the table of
\* an earlier refresh is still in place.
C21_Witness ==
    /\ last.op = "refresh" /\ last.result = "CANCELLED" /\ last.report = "ERROR parse"
    /\ Len(forge_labels) = 3

\* C22: the export writes at 0x41 the two's-complement byte of the spawn
\* sequence clamped to [-127, 127], as it does for the timer; -128 is written
\* as the byte of -127.
C22_SpawnSequenceByteClamped ==
    (last.op = "export" /\ last.result = "FINISHED" /\ last.written = 1 /\ Len(scene) = 1) =>
        LET v == scene[1].spawn_sequence
            c == IF v < -127 THEN -127 ELSE IF v > 127 THEN 127 ELSE v
        IN /\ mem[0][OFF_SPAWN_SEQ] = (IF c < 0 THEN c + 256 ELSE c)
           /\ v = -128 => mem[0][OFF_SPAWN_SEQ] = 129

\* The four flag fields of a record.
FlagFields(p) ==
    <<p.physics_mode_enum, p.game_specific_enum, p.symmetry_enum, p.place_at_start_enum>>

\* C23: the object-flags byte an export writes has bits 0 and 4 clear and
\* physics bits 00, 01 or 11; an import reads physics bits 10 and 11 as
\* phased, symmetry from bits 3:2, game-specific from bit 5 and place-at-start
\* as true exactly when bit 1 is 0; packing then decoding gives back every
\* flag combination, and decoding then packing gives back the byte exactly
\* when it has bits 0 and 4 clear and physics bits other than 10.
C23_ObjectFlagsRoundTrip ==
    /\ []((last.op = "export" /\ last.result = "FINISHED" /\ last.written = 1) =>
            LET b == mem[0][OFF_OBJECT_FLAGS]
            IN Bit(b, 0) = 0 /\ Bit(b, 4) = 0 /\ b \div 64 \in {0, 1, 3})
    /\ []((last.op = "import" /\ last.result = "FINISHED" /\ Len(last.pairs) = 1
           /\ Len(scene) = 1) =>
            LET b == mem[0][OFF_OBJECT_FLAGS]
            IN FlagFields(scene[1]) =
                 << CASE b \div 64 = 0 -> "NORMAL" [] b \div 64 = 1 -> "FIXED"
                      [] OTHER -> "PHASED",
                    IF Bit(b, 5) = 1 THEN "1" ELSE "0",
                    CASE (b \div 4) % 4 = 0 -> "NONE" [] (b \div 4) % 4 = 1 -> "SYMMETRIC"
                      [] (b \div 4) % 4 = 2 -> "ASYMMETRIC" [] OTHER -> "BOTH",
                    IF Bit(b, 1) = 0 THEN "1" ELSE "0" >>)
    /\ [][(/\ last.op = "export" /\ last.result = "FINISHED" /\ last.written = 1
           /\ last'.op = "import" /\ last'.result = "FINISHED" /\ Len(last'.pairs) = 1
           /\ Len(scene) = 1)
          => FlagFields(scene'[1]) = FlagFields(scene[1])]_vars
    /\ [][(/\ last.op = "import" /\ last.result = "FINISHED" /\ Len(last.pairs) = 1
           /\ Len(scene) = 1
           /\ last'.op = "export" /\ last'.result = "FINISHED" /\ last'.written = 1)
          => LET b == mem[0][OFF_OBJECT_FLAGS]
             IN (mem'[0][OFF_OBJECT_FLAGS] = b)
                  <=> (Bit(b, 0) = 0 /\ Bit(b, 4) = 0 /\ b \div 64 # 2)]_vars

\* An entry whose flags byte has physics bits 10 and bits 0 and 4 set has been
\* imported as a phased record.
C23_Witness ==
    /\ last.op = "import" /\ last.result = "FINISHED" /\ Len(scene) = 1
    /\ mem[0][OFF_OBJECT_FLAGS] = 128 + 16 + 1
    /\ scene[1].physics_mode_enum = "PHASED"

C25_Scale330X ==
    (last.op = "spawnSeqToScale" /\ last.args[2] = "330X") =>
        LET v    == last.args[1]
            base == IF last.args[3] = "RED" THEN 32732 ELSE 100
        IN /\ (-20 < v /\ v <= 0) => last.value = 100 + 5 * v
           /\ v > 0 => last.value = recursive_330x(v, base)
           /\ v < -20 => last.value = recursive_330x(v + 201, base)

\* The scale of -21 under 330X for the defender team has been computed: 180
\* compounding steps from 32732.
C25_Witness ==
    /\ last.op = "spawnSeqToScale"
    /\ last.args = <<-21, "330X", "RED">>
    /\ last.value > 32732

\* C26: an import that resolved a non-zero base returns FINISHED; it made one
\* record for each scanned entry, in ascending slot order, each tagged with
\* its slot; an entry without a registry match has its record and is counted
\* as unknown; and when a slot read failed, every non-empty entry read before
\* it has its record.
C26_ImportCompletes ==
    (last.op = "import" /\ last.base # 0) =>
        LET n      == Len(last.pairs)
            read   == SlotsRead(last)
            failed == {i \in read : last.read_failed /\ \A k \in read : k <= i}
            nomatch == {j \in 1..n :
                          LET t == TripleOf(last.pairs[j][2])
                          IN ExactPositions(t[1], t[2], t[3]) = {}
                             /\ PairPositions(t[1], t[2]) = {}}
        IN /\ last.result = "FINISHED"
           /\ last.imported = n
           /\ n <= Len(scene)
           /\ \A j \in 1..n :
                 /\ last.pairs[j][1] \in read \ failed
                 /\ last.pairs[j][2] = mem[last.pairs[j][1]]
                 /\ scene[ImportedAt(j)].h2a_import_slot = last.pairs[j][1]
                 /\ j < n => last.pairs[j][1] < last.pairs[j + 1][1]
           /\ \A i \in read \ failed :
                 ~_entry_is_empty(mem[i]) => \E j \in 1..n : last.pairs[j][1] = i
           /\ last.unknown >= Cardinality(nomatch)

\* An import whose read of slot 1 failed has returned with the record of
\* slot 0.
C26_Witness ==
    /\ last.op = "import"
    /\ last.result = "FINISHED"
    /\ last.read_failed
    /\ Len(last.pairs) = 1
    /\ scene[ImportedAt(1)].h2a_import_slot = 0

\* C27: in an export, the total counter and the post-export calls are made
\* only after all maxObjectCount slot writes succeeded, at most once each,
\* the count-taking ones with the written count, the plain poke only when the
\* count-taking finalize is not bound, and none for a capability that is not
\* bound; once the slot writes have succeeded the export returns FINISHED
\* with warnings at most and the handle released.
C27_OptionalCallsAfterWrites ==
    last.op = "export" =>
        LET opt    == FnCalls(last, {"set_total", "finalize", "post_export"})
            writes == SlotCalls(last, "write")
            allWritten == Cardinality(writes) = maxObjectCount /\ last.fail_slot = -1
        IN /\ \A c \in opt :
                 /\ allWritten
                 /\ \A w \in writes : w < c
                 /\ \A d \in opt : last.calls[d].fn = last.calls[c].fn => d = c
                 /\ last.calls[c].fn \in {"set_total", "finalize"}
                       => last.calls[c].arg = last.written
                 /\ last.calls[c].fn = "set_total" => caps.set_total
                 /\ last.calls[c].fn = "finalize" => caps.finalize
                 /\ last.calls[c].fn = "post_export" => caps.post_export /\ ~caps.finalize
           /\ allWritten =>
                 /\ last.result = "FINISHED"
                 /\ last.report = "INFO"
                 /\ last.warnings \subseteq {"total", "post"}
                 /\ caps.set_total => FnCalls(last, {"set_total"}) # {}
                 /\ caps.finalize => FnCalls(last, {"finalize"}) # {}
                 /\ (caps.post_export /\ ~caps.finalize) => FnCalls(last, {"post_export"}) # {}
                 /\ last.calls[Len(last.calls)].fn = "close"
                 /\ ~hproc

\* An export through a provider without the count-taking finalize has
\* returned FINISHED after both of its optional calls reported failure.
C27_Witness ==
    /\ last.op = "export"
    /\ last.result = "FINISHED"
    /\ caps.set_total /\ ~caps.finalize /\ caps.post_export
    /\ last.warnings = {"total", "post"}
    /\ FnCalls(last, {"post_export"}) # {}

\* C28: for every entry (index i, name n) of the current label table, the
\* name the byte i decodes to encodes, against the same table, to i again.
C28_LabelIndexRoundTrip ==
    \A t \in 1..Len(forge_labels) :
        LET i == forge_labels[t].index
        IN _find_label_index_by_name(forge_labels,
                                     _find_label_name_by_index(forge_labels, i)) = i

\* C29: an export that follows the user's choice of a registry type for a
\* record writes, in the record's slot, that type's registry top id at 0x00
\* and sub id at 0x30, and the record's pre-flags byte at 0x3B, whatever the
\* record was before the choice.
C29_AssignedTypeIsExported ==
    [][(/\ last.op = "pick_template"
        /\ last'.op = "export" /\ last'.result = "FINISHED"
        /\ Len(LiveRecords(scene)) = Len(scene)
        /\ last.args[1] <= maxObjectCount)
       => LET i    == last.args[1]
              info == _get_type_info(last.args[2])
          IN /\ mem'[i - 1][0] = info[1]
             /\ _u16_from(mem'[i - 1], OFF_U16_TYPECONST) = info[2]
             /\ mem'[i - 1][OFF_PRE_FLAGS_BYTE] = scene[i].pre_flags_byte
      ]_vars

\* C30: when an export returns FINISHED, the written and skipped counts add
\* up to the number of forge records in the scene, and the written count is
\* at most maxObjectCount.
C30_WrittenPlusSkipped ==
    (last.op = "export" /\ last.result = "FINISHED") =>
        /\ last.written + last.skipped = Len(scene)
        /\ last.written <= maxObjectCount

=============================================================================
